---- MODULE Spec2Model ----
(***************************************************************************)
(* The document store of rust_pure_web (src/db.rs) with its encrypted      *)
(* write-through file (src/crypto.rs) and the collection handlers of the   *)
(* HTTP API (src/api/collections.rs).                                      *)
(*                                                                         *)
(* Strings are sequences of bytes (Rust's String is UTF-8; the model only  *)
(* builds ASCII strings).  A u32 of the cipher is a pair <<hi16, lo16>>,   *)
(* so that no intermediate result leaves TLC's 32-bit integers.            *)
(***************************************************************************)
EXTENDS Integers, Sequences, FiniteSets, TLC

\* ------------------------------------------------------------------ bounds
\* Operations run in one behaviour.
MaxOps == 2
\* Outcomes of the random source: 0 is "/dev/urandom cannot be read" (the
\* zero buffer), 1..MaxRand are distinct streams read from the device.
MaxRand == 1
\* Seconds the clock may advance.
MaxClock == 1
\* Iteration orders a HashMap may have (rotations of one base order).
MaxHash == 1
\* Keystream blocks tabulated per nonce (longer data is computed directly).
MaxBlocks == 40

\* ------------------------------------------------------------- evaluation
\* `let x = e; F(x)`: e is evaluated once and F is applied to its value.
Let(e, F(_)) == CHOOSE v \in {F(x) : x \in {e}} : TRUE

\* ----------------------------------------------------------------- strings
Lower == "abcdefghijklmnopqrstuvwxyz"
Upper == "ABCDEFGHIJKLMNOPQRSTUVWXYZ"
Digits == "0123456789"

IndexIn(alphabet, c) == CHOOSE i \in 1..Len(alphabet) : SubSeq(alphabet, i, i) = c

Within(alphabet, c) == \E i \in 1..Len(alphabet) : SubSeq(alphabet, i, i) = c

\* The UTF-8 code unit of a one-character ASCII string.
code_unit(c) ==
    CASE Within(Lower, c) -> 96 + IndexIn(Lower, c)
      [] Within(Upper, c) -> 64 + IndexIn(Upper, c)
      [] Within(Digits, c) -> 47 + IndexIn(Digits, c)
      [] c = " " -> 32
      [] c = "," -> 44
      [] c = "-" -> 45
      [] c = "." -> 46
      [] c = "/" -> 47
      [] c = ":" -> 58
      [] c = "@" -> 64
      [] c = "_" -> 95

\* str::as_bytes of a string literal.
as_bytes(s) == SubSeq([i \in 1..Len(s) |-> code_unit(SubSeq(s, i, i))], 1, Len(s))

\* str::starts_with(char)
starts_with(s, c) == Len(s) > 0 /\ s[1] = code_unit(c)

\* str::is_empty
is_empty(s) == Len(s) = 0

\* ------------------------------------------------------------------ crypto
RECURSIVE xor_bits(_, _, _)
xor_bits(a, b, n) ==
    IF n = 0 THEN 0
    ELSE ((a + b) % 2) + 2 * xor_bits(a \div 2, b \div 2, n - 1)

\* u8 ^ u8, tabulated once: entry a * 256 + b + 1 is a ^ b.
XorTable == SubSeq([p \in 1..65536 |-> xor_bits((p - 1) \div 256, (p - 1) % 256, 8)], 1, 65536)

xor8(a, b) == XorTable[a * 256 + b + 1]

xor16(a, b) == xor8(a \div 256, b \div 256) * 256 + xor8(a % 256, b % 256)

\* u32 ^ u32
xor32(x, y) == <<xor16(x[1], y[1]), xor16(x[2], y[2])>>

\* u32::wrapping_add
wrapping_add(x, y) ==
    LET lo == x[2] + y[2]
    IN  <<(x[1] + y[1] + (lo \div 65536)) % 65536, lo % 65536>>

\* u32::rotate_left, for 0 < n <= 16
rotate_left(x, n) ==
    IF n = 16 THEN <<x[2], x[1]>>
    ELSE LET p == 2 ^ n
             q == 2 ^ (16 - n)
         IN  <<((x[1] * p) % 65536) + (x[2] \div q), ((x[2] * p) % 65536) + (x[1] \div q)>>

\* u32::from_le_bytes
u32_from_le_bytes(b) == <<b[4] * 256 + b[3], b[2] * 256 + b[1]>>

\* u32::to_le_bytes
u32_to_le_bytes(w) == <<w[2] % 256, w[2] \div 256, w[1] % 256, w[1] \div 256>>

\* `i as u32` of a small index
as_u32(i) == <<i \div 65536, i % 65536>>

quarter_round(state, a, b, c, d) ==
    Let(wrapping_add(state[a + 1], state[b + 1]), LAMBDA a1 :
    Let(rotate_left(xor32(state[d + 1], a1), 16), LAMBDA d1 :
    Let(wrapping_add(state[c + 1], d1), LAMBDA c1 :
    Let(rotate_left(xor32(state[b + 1], c1), 12), LAMBDA b1 :
    Let(wrapping_add(a1, b1), LAMBDA a2 :
    Let(rotate_left(xor32(d1, a2), 8), LAMBDA d2 :
    Let(wrapping_add(c1, d2), LAMBDA c2 :
    Let(rotate_left(xor32(b1, c2), 7), LAMBDA b2 :
        [state EXCEPT ![a + 1] = a2, ![b + 1] = b2, ![c + 1] = c2, ![d + 1] = d2]))))))))

\* One pass of the body of `for _ in 0..10`: four column rounds, then four
\* diagonal rounds.
double_round(state) ==
    Let(quarter_round(state, 0, 4, 8, 12), LAMBDA s1 :
    Let(quarter_round(s1, 1, 5, 9, 13), LAMBDA s2 :
    Let(quarter_round(s2, 2, 6, 10, 14), LAMBDA s3 :
    Let(quarter_round(s3, 3, 7, 11, 15), LAMBDA s4 :
    Let(quarter_round(s4, 0, 5, 10, 15), LAMBDA s5 :
    Let(quarter_round(s5, 1, 6, 11, 12), LAMBDA s6 :
    Let(quarter_round(s6, 2, 7, 8, 13), LAMBDA s7 :
        quarter_round(s7, 3, 4, 9, 14))))))))

\* The loop `for _ in 0..10` of chacha20_block: n double rounds.
RECURSIVE double_rounds(_, _)
double_rounds(state, n) ==
    IF n = 0 THEN state
    ELSE Let(double_rounds(state, n - 1), LAMBDA s : double_round(s))

\* The state chacha20_block starts from: constants, key, counter, nonce.
initial_state(key, counter, nonce) ==
    <<<<24944, 30821>>, <<13088, 25710>>, <<31074, 11570>>, <<27424, 25972>>>>
    \o [i \in 1..8 |-> u32_from_le_bytes(SubSeq(key, 4 * i - 3, 4 * i))]
    \o <<as_u32(counter)>>
    \o [i \in 1..3 |-> u32_from_le_bytes(SubSeq(nonce, 4 * i - 3, 4 * i))]

chacha20_block(key, counter, nonce) ==
    Let(initial_state(key, counter, nonce), LAMBDA initial :
    Let(double_rounds(initial, 10), LAMBDA state :
    Let([i \in 1..16 |-> u32_to_le_bytes(wrapping_add(state[i], initial[i]))], LAMBDA words :
        SubSeq([p \in 1..64 |-> words[((p - 1) \div 4) + 1][((p - 1) % 4) + 1]], 1, 64))))

\* random_bytes(len) under outcome r of the random source: the zero buffer
\* when /dev/urandom cannot be opened or read, the bytes of stream r otherwise.
random_bytes(len, r) == SubSeq([i \in 1..len |-> IF r = 0 THEN 0 ELSE (16 * r + i) % 256], 1, len)

HexDigits == as_bytes("0123456789abcdef")

\* format!("{:02x}", b) of every byte
hex_encode(data) ==
    SubSeq([i \in 1..(2 * Len(data)) |->
        IF i % 2 = 1 THEN HexDigits[(data[(i + 1) \div 2] \div 16) + 1]
        ELSE HexDigits[(data[i \div 2] % 16) + 1]], 1, 2 * Len(data))

random_hex(len, r) == hex_encode(random_bytes(len, r))

\* ---------------------------------------------------------------- sha256
\* SHA-256 constants.
K ==
    <<<<17034, 12184>>, <<28983, 17553>>, <<46528, 64463>>, <<59829, 56229>>,
      <<14678, 49755>>, <<23025, 4593>>, <<37439, 33444>>, <<43804, 24277>>,
      <<55303, 43672>>, <<4739, 23297>>, <<9265, 34238>>, <<21772, 32195>>,
      <<29374, 23924>>, <<32990, 45566>>, <<39900, 1703>>, <<49563, 61812>>,
      <<58523, 27073>>, <<61374, 18310>>, <<4033, 40390>>, <<9228, 41420>>,
      <<11753, 11375>>, <<19060, 33962>>, <<23728, 43484>>, <<30457, 35034>>,
      <<38974, 20818>>, <<43057, 50797>>, <<45059, 10184>>, <<48985, 32711>>,
      <<50912, 3059>>, <<54695, 37191>>, <<1738, 25425>>, <<5161, 10599>>,
      <<10167, 2693>>, <<11803, 8504>>, <<19756, 28156>>, <<21304, 3347>>,
      <<25866, 29524>>, <<30314, 2747>>, <<33218, 51502>>, <<37490, 11397>>,
      <<41663, 59553>>, <<43034, 26187>>, <<49739, 35696>>, <<51052, 20899>>,
      <<53650, 59417>>, <<54937, 1572>>, <<62478, 13701>>, <<4202, 41072>>,
      <<6564, 49430>>, <<7735, 27656>>, <<10056, 30540>>, <<13488, 48309>>,
      <<14620, 3251>>, <<20184, 43594>>, <<23452, 51791>>, <<26670, 28659>>,
      <<29839, 33518>>, <<30885, 25455>>, <<33992, 30740>>, <<36039, 520>>,
      <<37054, 65530>>, <<42064, 27883>>, <<48889, 41975>>, <<50801, 30962>>>>

\* The initial hash value `h` of sha256.
H0 ==
    <<<<27145, 58983>>, <<47975, 44677>>, <<15470, 62322>>, <<42319, 62778>>,
      <<20750, 21119>>, <<39685, 26764>>, <<8067, 55723>>, <<23520, 52505>>>>

\* u16 & u16, from a + b = (a ^ b) + 2 * (a & b)
and16(a, b) == (a + b - xor16(a, b)) \div 2

\* u32 & u32
and32(x, y) == <<and16(x[1], y[1]), and16(x[2], y[2])>>

\* !u32
not32(x) == <<65535 - x[1], 65535 - x[2]>>

\* u32 >> n, for 0 < n < 16
shr(x, n) ==
    LET p == 2 ^ n
        q == 2 ^ (16 - n)
    IN  <<x[1] \div p, (x[2] \div p) + ((x[1] % p) * q)>>

\* rotate_right by 16 whatever n is.
rotate_right_by_16(x, n) == <<x[2], x[1]>>

\* u32::rotate_right, for 0 < n < 32
rotate_right(x, n) ==
    IF n = 16 THEN <<x[2], x[1]>>
    ELSE LET y == IF n > 16 THEN <<x[2], x[1]>> ELSE x
             m == IF n > 16 THEN n - 16 ELSE n
             p == 2 ^ m
             q == 2 ^ (16 - m)
         IN  <<(y[1] \div p) + ((y[2] % p) * q), (y[2] \div p) + ((y[1] % p) * q)>>

\* u32::from_be_bytes
u32_from_be_bytes(b) == <<b[1] * 256 + b[2], b[3] * 256 + b[4]>>

\* u32::to_be_bytes
u32_to_be_bytes(w) == <<w[1] \div 256, w[1] % 256, w[2] \div 256, w[2] % 256>>

\* u64::to_be_bytes of a bit length below 2^31
u64_to_be_bytes(n) == <<0, 0, 0, 0>> \o u32_to_be_bytes(as_u32(n))

\* sha256: the padded message.
pad(data) ==
    Let(Len(data), LAMBDA n :
    Let((119 - (n % 64)) % 64, LAMBDA zeros :
        data \o <<128>> \o SubSeq([i \in 1..zeros |-> 0], 1, zeros) \o u64_to_be_bytes(n * 8)))

\* w[i] for i in lo..hi (each from w[i-16], w[i-15], w[i-7], w[i-2]), run as
\* two halves, one after the other.  w holds w[0] .. w[lo-1].
RECURSIVE schedule(_, _, _)
schedule(w, lo, hi) ==
    IF lo = hi
    THEN Let(w[lo - 14], LAMBDA w15 :
         Let(w[lo - 1], LAMBDA w2 :
         Let(xor32(xor32(rotate_right(w15, 7), rotate_right(w15, 18)), shr(w15, 3)),
             LAMBDA s0 :
         Let(xor32(xor32(rotate_right(w2, 17), rotate_right(w2, 19)), shr(w2, 10)),
             LAMBDA s1 :
             Append(w, wrapping_add(wrapping_add(wrapping_add(w[lo - 15], s0), w[lo - 6]),
                                    s1))))))
    ELSE Let(schedule(w, lo, (lo + hi) \div 2), LAMBDA half :
             schedule(half, ((lo + hi) \div 2) + 1, hi))

\* The body of `for i in 0..64` on v = (a, b, c, d, e, f, g, hh).
round(v, w, i) ==
    Let(xor32(xor32(rotate_right(v[5], 6), rotate_right(v[5], 11)), rotate_right(v[5], 25)),
        LAMBDA s1 :
    Let(xor32(and32(v[5], v[6]), and32(not32(v[5]), v[7])), LAMBDA ch :
    Let(wrapping_add(wrapping_add(wrapping_add(wrapping_add(v[8], s1), ch), K[i + 1]),
                     w[i + 1]), LAMBDA t1 :
    Let(xor32(xor32(rotate_right(v[1], 2), rotate_right(v[1], 13)), rotate_right(v[1], 22)),
        LAMBDA s0 :
    Let(xor32(xor32(and32(v[1], v[2]), and32(v[1], v[3])), and32(v[2], v[3])), LAMBDA maj :
    Let(wrapping_add(s0, maj), LAMBDA t2 :
        <<wrapping_add(t1, t2), v[1], v[2], v[3], wrapping_add(v[4], t1), v[5], v[6],
          v[7]>>))))))

\* Rounds lo..hi, run as two halves.
RECURSIVE rounds(_, _, _, _)
rounds(v, w, lo, hi) ==
    IF lo = hi THEN round(v, w, lo)
    ELSE Let(rounds(v, w, lo, (lo + hi) \div 2), LAMBDA half :
             rounds(half, w, ((lo + hi) \div 2) + 1, hi))

\* The body of `for chunk in padded.chunks(64)`.
compress(h, chunk) ==
    Let(SubSeq([i \in 1..16 |-> u32_from_be_bytes(SubSeq(chunk, 4 * i - 3, 4 * i))], 1, 16),
        LAMBDA w16 :
    Let(schedule(w16, 16, 63), LAMBDA w :
    Let(rounds(h, w, 0, 63), LAMBDA v :
        SubSeq([i \in 1..8 |-> wrapping_add(h[i], v[i])], 1, 8))))

\* Chunks lo..hi of the padded message, run as two halves.
RECURSIVE chunks(_, _, _, _)
chunks(h, padded, lo, hi) ==
    IF lo = hi THEN compress(h, SubSeq(padded, 64 * lo + 1, 64 * lo + 64))
    ELSE Let(chunks(h, padded, lo, (lo + hi) \div 2), LAMBDA half :
             chunks(half, padded, ((lo + hi) \div 2) + 1, hi))

sha256(data) ==
    Let(pad(data), LAMBDA padded :
    Let(chunks(H0, padded, 0, (Len(padded) \div 64) - 1), LAMBDA h :
        SubSeq([p \in 1..32 |-> u32_to_be_bytes(h[((p - 1) \div 4) + 1])[((p - 1) % 4) + 1]],
               1, 32)))

hmac_sha256(key, data) ==
    Let(IF Len(key) > 64 THEN sha256(key) ELSE key, LAMBDA short :
    Let(SubSeq([i \in 1..64 |-> IF i <= Len(short) THEN short[i] ELSE 0], 1, 64), LAMBDA k :
    Let(SubSeq([i \in 1..64 |-> xor8(54, k[i])], 1, 64), LAMBDA ipad :
    Let(SubSeq([i \in 1..64 |-> xor8(92, k[i])], 1, 64), LAMBDA opad :
    Let(sha256(ipad \o data), LAMBDA inner_hash :
        sha256(opad \o inner_hash))))))

\* The loop `for _ in 1..iterations` of pbkdf2 on (u, result).
RECURSIVE pbkdf2_loop(_, _, _, _)
pbkdf2_loop(password, u, result, n) ==
    IF n = 0 THEN result
    ELSE Let(hmac_sha256(password, u), LAMBDA next :
         Let(SubSeq([i \in 1..32 |-> xor8(result[i], next[i])], 1, 32), LAMBDA xored :
             pbkdf2_loop(password, next, xored, n - 1)))

pbkdf2(password, salt, iterations) ==
    Let(hmac_sha256(password, salt \o <<0, 0, 0, 1>>), LAMBDA u :
        pbkdf2_loop(password, u, u, iterations - 1))

\* The value of a hex digit, -1 for any other byte.
hex_value(c) ==
    IF c >= 48 /\ c <= 57 THEN c - 48
    ELSE IF c >= 97 /\ c <= 102 THEN c - 87
    ELSE IF c >= 65 /\ c <= 70 THEN c - 55
    ELSE -1

\* u8::from_str_radix(pair, 16).ok(): two hex digits, or '+' and one.
from_str_radix(pair) ==
    IF hex_value(pair[1]) >= 0 /\ hex_value(pair[2]) >= 0
    THEN [some |-> TRUE, v |-> 16 * hex_value(pair[1]) + hex_value(pair[2])]
    ELSE IF pair[1] = 43 /\ hex_value(pair[2]) >= 0
    THEN [some |-> TRUE, v |-> hex_value(pair[2])]
    ELSE [some |-> FALSE, v |-> 0]

\* hex_decode: None when a pair is not a number; `&s[i..i+2]` panics on the
\* last pair of a string of odd length.
hex_decode(s) ==
         Let(SubSeq([i \in 1..(Len(s) \div 2) |-> from_str_radix(SubSeq(s, 2 * i - 1, 2 * i))],
                    1, Len(s) \div 2), LAMBDA pairs :
             IF \E i \in 1..Len(pairs) : ~pairs[i].some
             THEN [panic |-> FALSE, some |-> FALSE, v |-> <<>>]
             ELSE IF Len(s) % 2 = 1 THEN [panic |-> TRUE, some |-> FALSE, v |-> <<>>]
             ELSE [panic |-> FALSE, some |-> TRUE,
                   v |-> SubSeq([i \in 1..Len(pairs) |-> pairs[i].v], 1, Len(pairs))])

\* str::split that never finds the separator.
split_never(s, c) == <<s>>

\* str::split(c).collect(): the pieces between the occurrences of c.
split(s, c) ==
    Let({p \in 1..Len(s) : s[p] = c}, LAMBDA at :
    Let([k \in 0..(Cardinality(at) + 1) |->
            IF k = 0 THEN 0
            ELSE IF k = Cardinality(at) + 1 THEN Len(s) + 1
            ELSE CHOOSE p \in at : Cardinality({q \in at : q < p}) = k - 1], LAMBDA cut :
        SubSeq([k \in 1..(Cardinality(at) + 1) |-> SubSeq(s, cut[k - 1] + 1, cut[k] - 1)],
               1, Cardinality(at) + 1)))

\* Iterations of pbkdf2 (100_000 in hash_password and verify_password).
MaxIterations == 2

\* The passwords of the requests to the auth handlers.
AuthPasswords == <<as_bytes("password"), as_bytes("short")>>

\* pbkdf2 of these passwords under the salts the random source can give,
\* computed once.
DerivedTable ==
    [p \in 1..Len(AuthPasswords), r \in 0..(MaxOps + 2) |->
        pbkdf2(AuthPasswords[p], random_bytes(16, r), MaxIterations)]

\* `pbkdf2(password.as_bytes(), &salt, 100_000)`
pbkdf2_100_000(password, salt) ==
    IF \E i \in DOMAIN DerivedTable :
           AuthPasswords[i[1]] = password /\ random_bytes(16, i[2]) = salt
    THEN DerivedTable[CHOOSE i \in DOMAIN DerivedTable :
                          AuthPasswords[i[1]] = password /\ random_bytes(16, i[2]) = salt]
    ELSE pbkdf2(password, salt, MaxIterations)

\* hash_password under outcome r of the random source.
hash_password(password, r) ==
    Let(random_bytes(16, r), LAMBDA salt :
    Let(pbkdf2_100_000(password, salt), LAMBDA hash :
        hex_encode(salt) \o <<58>> \o hex_encode(hash)))

\* What a call gives: its value, or the panic that ends it.
Gives(ret) == [panic |-> FALSE, ret |-> ret]

Panics == [panic |-> TRUE, ret |-> FALSE]

verify_password(password, stored) ==
    Let(split(stored, 58), LAMBDA parts :
        IF Len(parts) # 2 THEN Gives(FALSE)
        ELSE Let(hex_decode(parts[1]), LAMBDA salt :
             IF salt.panic THEN Panics
             ELSE IF ~salt.some THEN Gives(FALSE)
             ELSE Let(hex_decode(parts[2]), LAMBDA stored_hash :
                  IF stored_hash.panic THEN Panics
                  ELSE IF ~stored_hash.some THEN Gives(FALSE)
                  ELSE Gives(pbkdf2_100_000(password, salt.v) = stored_hash.v))))

\* sha256 of the default passphrase "default-insecure-key-change-me"
\* (main.rs), which Database::new copies into encryption_key.
encryption_key ==
    <<185, 127, 93, 112, 79, 75, 37, 19, 109, 169, 250, 118, 200, 4, 147, 0,
      85, 193, 157, 58, 134, 21, 89, 9, 17, 183, 186, 73, 219, 45, 24, 138>>

\* The keystream with the counter starting at 1.
keystream_from_one(key, nonce, n) ==
    Let([i \in 1..n |-> chacha20_block(key, i, nonce)], LAMBDA blocks :
        SubSeq([p \in 1..(64 * n) |-> blocks[((p - 1) \div 64) + 1][((p - 1) % 64) + 1]],
               1, 64 * n))

\* The keystream chacha20 consumes: blocks 0 .. n-1 in order.
keystream(key, nonce, n) ==
    Let([i \in 1..n |-> chacha20_block(key, i - 1, nonce)], LAMBDA blocks :
        SubSeq([p \in 1..(64 * n) |-> blocks[((p - 1) \div 64) + 1][((p - 1) % 64) + 1]],
               1, 64 * n))

\* The keystreams of the store's key for the nonces the random source can
\* produce, evaluated once: entry r + 1 is for the nonce random_bytes(12, r).
KeystreamTable ==
    SubSeq([r \in 1..(MaxRand + 1) |->
        keystream(encryption_key, random_bytes(12, r - 1), MaxBlocks)], 1, MaxRand + 1)

Tabulated(key, nonce, n) ==
    /\ key = encryption_key
    /\ n <= MaxBlocks
    /\ \E r \in 0..MaxRand : nonce = random_bytes(12, r)

\* chacha20: byte j of chunk i is xored with byte j of block i.
chacha20(key, nonce, data) ==
    Let(data, LAMBDA d :
    Let(IF Tabulated(key, nonce, (Len(d) + 63) \div 64)
        THEN KeystreamTable[1 + CHOOSE r \in 0..MaxRand : nonce = random_bytes(12, r)]
        ELSE keystream(key, nonce, (Len(d) + 63) \div 64), LAMBDA ks :
        SubSeq([p \in 1..Len(d) |-> xor8(d[p], ks[p])], 1, Len(d))))

\* ------------------------------------------------------------------- maps
\* HashMap::new()
EmptyMap == <<>>

keys(m) == DOMAIN m

contains_key(m, k) == k \in DOMAIN m

\* HashMap::insert: the new value replaces the one stored under the key.
map_insert(m, k, v) == (k :> v) @@ m

\* HashMap::remove
map_remove(m, k) == [j \in (DOMAIN m) \ {k} |-> m[j]]

RECURSIVE SetToSeq(_)
SetToSeq(S) ==
    IF S = {} THEN <<>>
    ELSE LET k == CHOOSE j \in S : TRUE
         IN  <<k>> \o SetToSeq(S \ {k})

\* HashMap::iter: the keys in the order hasher state h gives them, one
\* rotation of a base order per state.  The order is unspecified in Rust.
iter(m, h) ==
    Let(SetToSeq(DOMAIN m), LAMBDA base :
        IF Len(base) = 0 THEN <<>>
        ELSE SubSeq([i \in 1..Len(base) |-> base[((i - 1 + h) % Len(base)) + 1]],
                    1, Len(base)))

\* Vec::extend with each of the first n byte strings in turn.
RECURSIVE extend_from(_, _)
extend_from(parts, n) ==
    IF n = 0 THEN <<>>
    ELSE extend_from(parts, n - 1) \o parts[n]

extend_all(parts, n) == Let(parts, LAMBDA ps : extend_from(ps, n))

\* ----------------------------------------------------------------- values
\* enum Value, a pair <<tag, payload>> with the tag write_value gives it.
Value_Null == <<0, 0>>

Value_Bool(b) == <<1, b>>

Value_Int(i) == <<2, i>>

\* An f64 is held as the 8 bytes of its IEEE-754 bits, least significant first.
Value_Float(f) == <<3, f>>

Value_String(s) == <<4, s>>

Value_Array(arr) == <<5, arr>>

Value_Object(obj) == <<6, obj>>

\* Value::as_str
as_str(v) == IF v[1] = 4 THEN [some |-> TRUE, v |-> v[2]] ELSE [some |-> FALSE, v |-> <<>>]

\* ------------------------------------------------------------ binary codec
\* (n as u32).to_le_bytes()
\* The length prefix with the most significant byte first.
len_to_be_bytes(n) == <<0, 0, n \div 256, n % 256>>

len_to_le_bytes(n) == u32_to_le_bytes(as_u32(n))

\* i64::to_le_bytes, for the i64 values TLC's integers hold.
i64_to_le_bytes(v) ==
    <<v % 256, (v \div 256) % 256, (v \div 65536) % 256, (v \div 16777216) % 256>>
    \o (IF v < 0 THEN <<255, 255, 255, 255>> ELSE <<0, 0, 0, 0>>)

\* i64::from_le_bytes; a value outside TLC's integers saturates.
i64_from_le_bytes(b) ==
    LET low == b[1] + 256 * b[2] + 65536 * b[3]
    IN  IF SubSeq(b, 5, 8) = <<0, 0, 0, 0>> /\ b[4] < 128 THEN low + 16777216 * b[4]
        ELSE IF SubSeq(b, 5, 8) = <<255, 255, 255, 255>> /\ b[4] >= 128
             THEN low + 16777216 * (b[4] - 256)
        ELSE IF b[8] < 128 THEN 2147483647 ELSE -2147483647

write_string(s) == len_to_le_bytes(Len(s)) \o s

RECURSIVE write_value(_, _), write_doc(_, _)
write_value(v, h) ==
    CASE v[1] = 0 -> <<0>>
      [] v[1] = 1 -> <<1, IF v[2] THEN 1 ELSE 0>>
      [] v[1] = 2 -> <<2>> \o i64_to_le_bytes(v[2])
      [] v[1] = 3 -> <<3>> \o v[2]
      [] v[1] = 4 -> <<4>> \o write_string(v[2])
      [] v[1] = 5 -> <<5>> \o len_to_le_bytes(Len(v[2]))
                     \o extend_all([i \in 1..Len(v[2]) |-> write_value(v[2][i], h)], Len(v[2]))
      [] v[1] = 6 -> <<6>> \o write_doc(v[2], h)

write_doc(doc, h) ==
    Let(iter(doc, h), LAMBDA ks :
        len_to_le_bytes(Len(ks))
        \o extend_all([i \in 1..Len(ks) |->
               write_string(ks[i]) \o write_value(doc[ks[i]], h)], Len(ks)))

\* A reader's result: the value and the advanced position, or the panic of
\* an out-of-range index or slice.
Ok(v, p) == [ok |-> TRUE, val |-> v, pos |-> p]

Panic == [ok |-> FALSE, val |-> 0, pos |-> 0]

\* String::from_utf8_lossy on bytes that hold no multi-byte sequence: every
\* byte that is not ASCII becomes U+FFFD.
from_utf8_lossy(b) ==
    IF \A i \in 1..Len(b) : b[i] < 128 THEN b
    ELSE extend_all([i \in 1..Len(b) |-> IF b[i] < 128 THEN <<b[i]>> ELSE <<239, 191, 189>>], Len(b))

\* read_u32; a value of 2^31 or more is held as 2^31 - 1, which is beyond
\* every length and count the data can satisfy.
read_u32(data, pos) ==
    IF pos + 4 > Len(data) THEN Panic
    ELSE Let(SubSeq(data, pos + 1, pos + 4), LAMBDA b :
             Ok(IF b[4] >= 128 THEN 2147483647
                ELSE b[1] + 256 * b[2] + 65536 * b[3] + 16777216 * b[4], pos + 4))

read_string(data, pos) ==
    Let(read_u32(data, pos), LAMBDA len :
        IF ~len.ok THEN Panic
        ELSE IF len.val > Len(data) - len.pos THEN Panic
        ELSE Ok(from_utf8_lossy(SubSeq(data, len.pos + 1, len.pos + len.val)),
                len.pos + len.val))

RECURSIVE read_value(_, _), read_doc(_, _), read_items(_, _, _, _), read_entries(_, _, _, _)
read_value(data, pos) ==
    IF pos >= Len(data) THEN Panic
    ELSE Let(data[pos + 1], LAMBDA tag :
         Let(pos + 1, LAMBDA p :
             CASE tag = 0 -> Ok(Value_Null, p)
               [] tag = 1 -> IF p >= Len(data) THEN Panic
                             ELSE Ok(Value_Bool(data[p + 1] # 0), p + 1)
               [] tag = 2 -> IF p + 8 > Len(data) THEN Panic
                             ELSE Ok(Value_Int(i64_from_le_bytes(SubSeq(data, p + 1, p + 8))), p + 8)
               [] tag = 3 -> IF p + 8 > Len(data) THEN Panic
                             ELSE Ok(Value_Float(SubSeq(data, p + 1, p + 8)), p + 8)
               [] tag = 4 -> Let(read_string(data, p), LAMBDA s :
                                 IF ~s.ok THEN Panic ELSE Ok(Value_String(s.val), s.pos))
               [] tag = 5 -> Let(read_u32(data, p), LAMBDA count :
                                 IF ~count.ok THEN Panic
                                 ELSE Let(read_items(data, count.pos, count.val, <<>>), LAMBDA arr :
                                          IF ~arr.ok THEN Panic
                                          ELSE Ok(Value_Array(arr.val), arr.pos)))
               [] tag = 6 -> Let(read_doc(data, p), LAMBDA obj :
                                 IF ~obj.ok THEN Panic ELSE Ok(Value_Object(obj.val), obj.pos))
               [] OTHER -> Ok(Value_Null, p)))

\* for _ in 0..count { arr.push(read_value(data, pos)); }
\* The iterations are run as two halves, one after the other.
read_items(data, pos, count, arr) ==
    IF count = 0 THEN Ok(arr, pos)
    ELSE IF count = 1
    THEN Let(read_value(data, pos), LAMBDA v :
             IF ~v.ok THEN Panic ELSE Ok(Append(arr, v.val), v.pos))
    ELSE Let(read_items(data, pos, count \div 2, arr), LAMBDA half :
             IF ~half.ok THEN Panic
             ELSE read_items(data, half.pos, count - (count \div 2), half.val))

\* for _ in 0..count { doc.insert(read_string(..), read_value(..)); }
read_entries(data, pos, count, doc) ==
    IF count = 0 THEN Ok(doc, pos)
    ELSE IF count = 1
    THEN Let(read_string(data, pos), LAMBDA k :
             IF ~k.ok THEN Panic
             ELSE Let(read_value(data, k.pos), LAMBDA v :
                      IF ~v.ok THEN Panic ELSE Ok(map_insert(doc, k.val, v.val), v.pos)))
    ELSE Let(read_entries(data, pos, count \div 2, doc), LAMBDA half :
             IF ~half.ok THEN Panic
             ELSE read_entries(data, half.pos, count - (count \div 2), half.val))

read_doc(data, pos) ==
    Let(read_u32(data, pos), LAMBDA count :
        IF ~count.ok THEN Panic
        ELSE read_entries(data, count.pos, count.val, EmptyMap))

\* ---------------------------------------------------------------- database
DB_VERSION == 1

S_users == as_bytes("_users")

S_sessions == as_bytes("_sessions")

S_settings == as_bytes("_settings")

S_ports == as_bytes("_ports")

S_id == as_bytes("id")

S_created == as_bytes("created")

S_updated == as_bytes("updated")

S_password == as_bytes("password")

\* One (name, type) pair of Schema.fields.
field(name, type) == <<as_bytes(name), as_bytes(type)>>

users_fields ==
    <<field("email", "string"), field("password", "string"), field("role", "string"),
      field("created", "int")>>

sessions_fields ==
    <<field("user_id", "string"), field("token", "string"), field("expires", "int")>>

settings_fields ==
    <<field("page_title", "string"), field("meta_description", "string"),
      field("meta_keywords", "string"), field("og_title", "string"),
      field("og_description", "string"), field("og_image", "string"),
      field("twitter_card", "string"), field("canonical_url", "string"),
      field("nginx_hostname", "string"), field("nginx_internal_ip", "string"),
      field("dev_network_name", "string"), field("dev_network_subnet", "string"),
      field("dev_ip_base", "string"), field("prod_network_name", "string"),
      field("prod_network_subnet", "string"), field("prod_ip_base", "string"),
      field("app_port", "int"), field("dev_port_start", "int"), field("dev_port_end", "int"),
      field("prod_port_start", "int"), field("prod_port_end", "int")>>

ports_fields ==
    <<field("project", "string"), field("dev_port", "int"), field("prod_port", "int"),
      field("created", "int")>>

string_default(key, value) == <<as_bytes(key), Value_String(as_bytes(value))>>

int_default(key, value) == <<as_bytes(key), Value_Int(value)>>

\* The (key, value) pairs of ensure_settings_defaults, in its order.
settings_defaults ==
    <<string_default("page_title", "Rust Pure Web"),
      string_default("meta_description", "Zero-dependency Rust web framework."),
      string_default("meta_keywords", "rust, web, zero-deps"),
      string_default("og_title", "Rust Pure Web"),
      string_default("og_description", "Fast, zero-dependency web framework in Rust."),
      string_default("og_image", ""),
      string_default("twitter_card", "summary_large_image"),
      string_default("canonical_url", ""),
      string_default("nginx_hostname", "proxy.olibuijr.com"),
      string_default("nginx_internal_ip", "192.168.8.4"),
      string_default("dev_network_name", "dev"),
      string_default("dev_network_subnet", "10.35.0.0/24"),
      string_default("dev_ip_base", "10.35.0."),
      string_default("prod_network_name", "prod"),
      string_default("prod_network_subnet", "10.36.0.0/24"),
      string_default("prod_ip_base", "10.36.0."),
      int_default("app_port", 3460),
      int_default("dev_port_start", 3501),
      int_default("dev_port_end", 3599),
      int_default("prod_port_start", 3601),
      int_default("prod_port_end", 3699)>>

\* The two maps of struct Database.
Database(cols, schs) == [collections |-> cols, schemas |-> schs]

\* create_collection_internal without its schemas.insert.
create_collection_internal_cols_only(db, name, fields) ==
    Database(map_insert(db.collections, name, EmptyMap), db.schemas)

create_collection_internal(db, name, fields) ==
    Database(map_insert(db.collections, name, EmptyMap), map_insert(db.schemas, name, fields))

Database_new ==
    create_collection_internal(
        create_collection_internal(
            create_collection_internal(
                create_collection_internal(Database(EmptyMap, EmptyMap), S_users, users_fields),
                S_sessions, sessions_fields),
            S_settings, settings_fields),
        S_ports, ports_fields)

\* Database::list_collections
list_collections(db) == {k \in keys(db.schemas) : ~starts_with(k, "_")}

\* list_all_collections with the filter of list_collections.
list_visible_only(db) == {k \in keys(db.schemas) : ~starts_with(k, "_")}

\* Database::list_all_collections
list_all_collections(db) == keys(db.schemas)

\* Database::find_one
find_one(db, collection, id) ==
    IF contains_key(db.collections, collection) /\ contains_key(db.collections[collection], id)
    THEN [some |-> TRUE, doc |-> db.collections[collection][id]]
    ELSE [some |-> FALSE, doc |-> EmptyMap]

\* Database::find_by: the first document, in the order h of the map, whose
\* field holds the string value.
find_by(db, collection, fld, value, h) ==
    IF ~contains_key(db.collections, collection) THEN [some |-> FALSE, doc |-> EmptyMap]
    ELSE Let(db.collections[collection], LAMBDA col :
         Let(iter(col, h), LAMBDA ids :
         Let({j \in 1..Len(ids) : /\ contains_key(col[ids[j]], fld)
                                   /\ as_str(col[ids[j]][fld]) = [some |-> TRUE, v |-> value]},
             LAMBDA hits :
             IF hits = {} THEN [some |-> FALSE, doc |-> EmptyMap]
             ELSE [some |-> TRUE,
                   doc |-> col[ids[CHOOSE j \in hits : \A k \in hits : j <= k]]])))

\* Database::find_all: the documents in the order h of the map.
find_all(db, collection, h) ==
    IF ~contains_key(db.collections, collection) THEN <<>>
    ELSE Let(db.collections[collection], LAMBDA col :
         Let(iter(col, h), LAMBDA ids :
             SubSeq([j \in 1..Len(ids) |-> col[ids[j]]], 1, Len(ids))))

\* insert with `cols.entry(collection).or_default()` in place of `get_mut(..)?`.
insert_or_create(db, collection, doc, id, t1, t2) ==
    Let(map_insert(map_insert(map_insert(doc, S_id, Value_String(id)),
                              S_created, Value_Int(t1)), S_updated, Value_Int(t2)), LAMBDA d3 :
    Let(IF contains_key(db.collections, collection)
        THEN db.collections[collection] ELSE EmptyMap, LAMBDA col :
        [some |-> TRUE, id |-> id,
         db |-> Database(map_insert(db.collections, collection, map_insert(col, id, d3)),
                         db.schemas)]))

\* insert that refuses a document with a field the schema does not name.
insert_schema_checked(db, collection, doc, id, t1, t2) ==
    IF ~contains_key(db.collections, collection)
       \/ \E k \in keys(doc) : \A j \in 1..Len(db.schemas[collection]) :
                                  db.schemas[collection][j][1] # k
    THEN [some |-> FALSE, id |-> <<>>, db |-> db]
    ELSE [some |-> TRUE, id |-> id,
          db |-> Database(map_insert(db.collections, collection,
                     map_insert(db.collections[collection], id,
                         map_insert(map_insert(map_insert(doc, S_id, Value_String(id)),
                                               S_created, Value_Int(t1)),
                                    S_updated, Value_Int(t2)))),
                     db.schemas)]

\* Database::insert up to `drop(cols)`: id is random_hex(12), t1 and t2 are
\* what the two calls of now() return.
insert(db, collection, doc, id, t1, t2) ==
    IF ~contains_key(db.collections, collection)
    THEN [some |-> FALSE, id |-> <<>>, db |-> db]
    ELSE Let(map_insert(doc, S_id, Value_String(id)), LAMBDA d1 :
         Let(map_insert(d1, S_created, Value_Int(t1)), LAMBDA d2 :
         Let(map_insert(d2, S_updated, Value_Int(t2)), LAMBDA d3 :
         Let(map_insert(db.collections[collection], id, d3), LAMBDA col :
             [some |-> TRUE, id |-> id,
              db |-> Database(map_insert(db.collections, collection, col), db.schemas)]))))

\* The loop of update without its test of the key.
apply_updates_unfiltered(doc, updates) ==
    [k \in keys(doc) \cup keys(updates) |-> IF contains_key(updates, k) THEN updates[k] ELSE doc[k]]

\* for (k, v) in updates { if k != "id" && k != "created" { doc.insert(k, v); } }
apply_updates(doc, updates) ==
    [k \in keys(doc) \cup {u \in keys(updates) : u # S_id /\ u # S_created} |->
        IF contains_key(updates, k) /\ k # S_id /\ k # S_created THEN updates[k] ELSE doc[k]]

\* Database::update up to `drop(cols)`: t is what now() returns.
update(db, collection, id, updates, t) ==
    IF contains_key(db.collections, collection) /\ contains_key(db.collections[collection], id)
    THEN Let(map_insert(apply_updates(db.collections[collection][id], updates),
                        S_updated, Value_Int(t)), LAMBDA doc :
         Let(map_insert(db.collections[collection], id, doc), LAMBDA col :
             [ret |-> TRUE,
              db |-> Database(map_insert(db.collections, collection, col), db.schemas)]))
    ELSE [ret |-> FALSE, db |-> db]

\* Database::delete up to `drop(cols)`.
delete(db, collection, id) ==
    IF contains_key(db.collections, collection) /\ contains_key(db.collections[collection], id)
    THEN [ret |-> TRUE,
          db |-> Database(map_insert(db.collections, collection,
                                     map_remove(db.collections[collection], id)), db.schemas)]
    ELSE [ret |-> FALSE, db |-> db]

\* delete_collection without `schemas.remove(name)`.
delete_collection_cols_only(db, name) ==
    IF starts_with(name, "_") THEN [ret |-> FALSE, db |-> db]
    ELSE [ret |-> TRUE, db |-> Database(map_remove(db.collections, name), db.schemas)]

\* delete_collection without its test of the name.
delete_collection_unguarded(db, name) ==
    [ret |-> TRUE, db |-> Database(map_remove(db.collections, name), map_remove(db.schemas, name))]

\* Database::delete_collection up to `drop(schemas)`.
delete_collection(db, name) ==
    IF starts_with(name, "_") THEN [ret |-> FALSE, db |-> db]
    ELSE [ret |-> TRUE,
          db |-> Database(map_remove(db.collections, name), map_remove(db.schemas, name))]

\* ------------------------------------------------------------- persistence
\* write_fields with the two strings of a field in the other order.
write_fields_swapped(fields) ==
    len_to_le_bytes(Len(fields))
    \o extend_all([j \in 1..Len(fields) |->
           write_string(fields[j][2]) \o write_string(fields[j][1])], Len(fields))

write_fields(fields) ==
    len_to_le_bytes(Len(fields))
    \o extend_all([j \in 1..Len(fields) |->
           write_string(fields[j][1]) \o write_string(fields[j][2])], Len(fields))

write_collection(col, h) ==
    Let(iter(col, h), LAMBDA ids :
        len_to_le_bytes(Len(ids))
        \o extend_all([j \in 1..Len(ids) |->
               write_string(ids[j]) \o write_doc(col[ids[j]], h)], Len(ids)))

\* serialize without its second loop, the collections.
serialize_schemas_only(db, h) ==
    Let(iter(db.schemas, h), LAMBDA sn :
        len_to_le_bytes(Len(sn))
        \o extend_all([i \in 1..Len(sn) |->
               write_string(sn[i]) \o write_fields(db.schemas[sn[i]])], Len(sn)))

\* Database::serialize; h is the state of the maps' hashers.
serialize(db, h) ==
    Let(iter(db.schemas, h), LAMBDA sn :
    Let(iter(db.collections, h), LAMBDA cn :
        len_to_le_bytes(Len(sn))
        \o extend_all([i \in 1..Len(sn) |->
               write_string(sn[i]) \o write_fields(db.schemas[sn[i]])], Len(sn))
        \o extend_all([i \in 1..Len(cn) |->
               write_string(cn[i]) \o write_collection(db.collections[cn[i]], h)], Len(cn))))

\* for _ in 0..field_count { fields.push((read_string(..), read_string(..))); }
RECURSIVE read_fields(_, _, _, _)
read_fields(data, pos, count, fields) ==
    IF count = 0 THEN Ok(fields, pos)
    ELSE IF count = 1
    THEN Let(read_string(data, pos), LAMBDA fname :
             IF ~fname.ok THEN Panic
             ELSE Let(read_string(data, fname.pos), LAMBDA ftype :
                      IF ~ftype.ok THEN Panic
                      ELSE Ok(Append(fields, <<fname.val, ftype.val>>), ftype.pos)))
    ELSE Let(read_fields(data, pos, count \div 2, fields), LAMBDA half :
             IF ~half.ok THEN Panic
             ELSE read_fields(data, half.pos, count - (count \div 2), half.val))

\* The loop `for _ in 0..schema_count` of deserialize.
RECURSIVE read_schemas(_, _, _, _)
read_schemas(data, pos, count, db) ==
    IF count = 0 THEN Ok(db, pos)
    ELSE IF count = 1
    THEN Let(read_string(data, pos), LAMBDA name :
             IF ~name.ok THEN Panic
             ELSE Let(read_u32(data, name.pos), LAMBDA field_count :
                      IF ~field_count.ok THEN Panic
                      ELSE Let(read_fields(data, field_count.pos, field_count.val, <<>>),
                               LAMBDA fields :
                               IF ~fields.ok THEN Panic
                               ELSE Ok(Database(map_insert(db.collections, name.val, EmptyMap),
                                                map_insert(db.schemas, name.val, fields.val)),
                                       fields.pos))))
    ELSE Let(read_schemas(data, pos, count \div 2, db), LAMBDA half :
             IF ~half.ok THEN Panic
             ELSE read_schemas(data, half.pos, count - (count \div 2), half.val))

\* for _ in 0..doc_count { col.insert(read_string(..), read_doc(..)); }
RECURSIVE read_docs(_, _, _, _)
read_docs(data, pos, count, col) ==
    IF count = 0 THEN Ok(col, pos)
    ELSE IF count = 1
    THEN Let(read_string(data, pos), LAMBDA id :
             IF ~id.ok THEN Panic
             ELSE Let(read_doc(data, id.pos), LAMBDA doc :
                      IF ~doc.ok THEN Panic ELSE Ok(map_insert(col, id.val, doc.val), doc.pos)))
    ELSE Let(read_docs(data, pos, count \div 2, col), LAMBDA half :
             IF ~half.ok THEN Panic
             ELSE read_docs(data, half.pos, count - (count \div 2), half.val))

\* The loop `while pos < data.len()` of deserialize.
RECURSIVE read_collections(_, _, _)
read_collections(data, pos, db) ==
    IF pos >= Len(data) THEN Ok(db, pos)
    ELSE Let(read_string(data, pos), LAMBDA name :
             IF ~name.ok THEN Panic
             ELSE Let(read_u32(data, name.pos), LAMBDA doc_count :
                      IF ~doc_count.ok THEN Panic
                      ELSE Let(read_docs(data, doc_count.pos, doc_count.val,
                                         IF contains_key(db.collections, name.val)
                                         THEN db.collections[name.val] ELSE EmptyMap),
                               LAMBDA col :
                               IF ~col.ok THEN Panic
                               ELSE Let(Database(map_insert(db.collections, name.val, col.val),
                                                 db.schemas),
                                        LAMBDA inserted :
                                        read_collections(data, col.pos, inserted)))))

\* Database::deserialize into db: the store read, or the panic of a reader.
deserialize(db, data) ==
    Let(data, LAMBDA bytes :
    Let(read_u32(bytes, 0), LAMBDA schema_count :
        IF ~schema_count.ok THEN Panic
        ELSE Let(read_schemas(bytes, schema_count.pos, schema_count.val, db), LAMBDA s :
                 IF ~s.ok THEN Panic ELSE read_collections(bytes, s.pos, s.val))))

\* The bytes Database::sync hands to fs::write; r is the outcome of
\* random_bytes(12) and h the state of the maps' hashers.
sync(db, r, h) ==
    Let(serialize(db, h), LAMBDA data :
    Let(random_bytes(12, r), LAMBDA nonce :
    Let(chacha20(encryption_key, nonce, data), LAMBDA encrypted :
        <<DB_VERSION>> \o nonce \o encrypted)))

ensure_internal_collections(db) ==
    IF ~contains_key(db.schemas, S_ports)
    THEN Database(map_insert(db.collections, S_ports, EmptyMap),
                  map_insert(db.schemas, S_ports, ports_fields))
    ELSE db

\* set_default that overwrites.
set_default_always(doc, key, value) == map_insert(doc, key, value)

set_default(doc, key, value) ==
    IF ~contains_key(doc, key) THEN map_insert(doc, key, value) ELSE doc

\* The calls lo .. hi of set_default (or of doc.insert on a new document),
\* run as two halves, one after the other.
RECURSIVE set_defaults(_, _, _)
set_defaults(doc, lo, hi) ==
    IF lo > hi THEN doc
    ELSE IF lo = hi THEN set_default(doc, settings_defaults[lo][1], settings_defaults[lo][2])
    ELSE Let(set_defaults(doc, lo, (lo + hi) \div 2), LAMBDA half :
             set_defaults(half, ((lo + hi) \div 2) + 1, hi))

\* rid is the outcome of the random source for random_hex(12).
ensure_settings_defaults(db, rid) ==
    Let(IF contains_key(db.collections, S_settings)
        THEN db.collections[S_settings] ELSE EmptyMap, LAMBDA col :
    Let(IF keys(col) = {}
        THEN map_insert(col, random_hex(12, rid),
                        set_defaults(EmptyMap, 1, Len(settings_defaults)))
        ELSE [id \in keys(col) |-> set_defaults(col[id], 1, Len(settings_defaults))],
        LAMBDA filled :
        Database(map_insert(db.collections, S_settings, filled), db.schemas)))

migrate_system_defaults(db, rid) ==
    Let(ensure_internal_collections(db), LAMBDA ensured : ensure_settings_defaults(ensured, rid))

\* load with the header taken as 13 bytes.
load_header_13(db, f, rid) ==
    IF ~f.exists THEN Ok(db, 0)
    ELSE IF Len(f.data) < 13 \/ f.data[1] # DB_VERSION THEN Ok(db, 0)
    ELSE Let(SubSeq(f.data, 2, 13), LAMBDA nonce :
         Let(chacha20(encryption_key, nonce, SubSeq(f.data, 14, Len(f.data))), LAMBDA decrypted :
         Let(deserialize(db, decrypted), LAMBDA d :
             IF ~d.ok THEN Panic ELSE Ok(migrate_system_defaults(d.val, rid), 0))))

\* Database::load on the file f = [exists, data]: the store afterwards, or
\* the panic of deserialize.
load(db, f, rid) ==
    IF ~f.exists THEN Ok(db, 0)
    ELSE IF Len(f.data) < 14 \/ f.data[1] # DB_VERSION THEN Ok(db, 0)
    ELSE Let(SubSeq(f.data, 2, 13), LAMBDA nonce :
         Let(chacha20(encryption_key, nonce, SubSeq(f.data, 14, Len(f.data))), LAMBDA decrypted :
         Let(deserialize(db, decrypted), LAMBDA d :
             IF ~d.ok THEN Panic ELSE Ok(migrate_system_defaults(d.val, rid), 0))))

\* What Database::load reads from the file f before it migrates: the store
\* deserialize fills, starting from an empty one.
file_image(f) ==
    IF Len(f.data) < 14 \/ f.data[1] # DB_VERSION THEN Panic
    ELSE Let(chacha20(encryption_key, SubSeq(f.data, 2, 13), SubSeq(f.data, 14, Len(f.data))),
             LAMBDA decrypted : deserialize(Database(EmptyMap, EmptyMap), decrypted))

\* db::init: Database::new then Database::load.
init(f, rid) == load(Database_new, f, rid)

\* ------------------------------------------------------------------ events
None == [some |-> FALSE, v |-> <<>>]

Some(v) == [some |-> TRUE, v |-> v]

\* doc_to_json_for_collection without its test of "password".
doc_to_json_unfiltered(collection, doc) == doc

\* doc_to_json_for_collection: the fields of doc the JSON text carries.
doc_to_json_for_collection(collection, doc) ==
    [k \in {j \in keys(doc) : ~(collection = S_users /\ j = S_password)} |-> doc[k]]

\* broadcast_event: the message handed to realtime::broadcast.
broadcast_event(kind, collection, doc, id) ==
    [kind |-> kind, collection |-> collection, id |-> id,
     doc |-> IF doc.some THEN Some(doc_to_json_for_collection(collection, doc.v)) ELSE None]

\* ------------------------------------------------------------------- inputs
S_notes == as_bytes("notes")

S_title == as_bytes("title")

\* Collection names a request may carry.
RequestNames == {S_notes, S_users, as_bytes("_x"), as_bytes("")}

\* Collections documents are written to.
DocCollections == {S_notes, S_settings, as_bytes("gone")}

\* The "fields" a create request may carry.
RequestFields == {<<>>, <<field("title", "string")>>}

\* Request bodies of the document handlers, as parse_json gives them.
Payloads ==
    <<map_insert(EmptyMap, S_title, Value_String(as_bytes("hi"))),
      map_insert(map_insert(map_insert(map_insert(map_insert(map_insert(EmptyMap,
          S_id, Value_String(as_bytes("zz"))),
          S_created, Value_Int(7)),
          S_updated, Value_Int(9)),
          S_title, Value_Int(3)),
          as_bytes("tags"), Value_Array(<<Value_Null, Value_Bool(TRUE),
                                          Value_Float(<<0, 0, 0, 0, 0, 0, 248, 63>>)>>)),
          as_bytes("meta"), Value_Object(map_insert(EmptyMap, as_bytes("k"), Value_Int(-5))))>>

\* The ids random_hex(12) can return.
RandomIds == {random_hex(12, r) : r \in 0..MaxRand}

\* -------------------------------------------------------------------- state
VARIABLES
    collections,    \* Database.collections
    schemas,        \* Database.schemas
    file,           \* data_dir/db.bin: [exists, data]
    clock,          \* seconds the system clock has advanced
    hasher,         \* the state of the HashMaps' hashers (their iteration order)
    running,        \* FALSE once the process has panicked
    events,         \* the messages the last operation handed to realtime::broadcast
    last,           \* the last operation and what it returned
    nops,           \* operations run so far
    threads,        \* per request thread: its call, its position in it, its locals
    locks,          \* the writer of each RwLock of struct Database (0: none)
    listener,       \* the client of realtime's hub and the room in its socket
    pending,        \* the fs::write under way: its phase, the bytes, the file before
    calc            \* a call of a pure function: its name, its input, its output

vars == <<collections, schemas, file, clock, hasher, running, events, last, nops,
          threads, locks, listener, pending, calc>>

\* What the request threads add to the state.
conc == <<threads, locks, listener, pending, calc>>

\* What only the one-thread view of the store uses.
seq == <<clock, running, last, nops, pending, calc>>

Threads == {1, 2}

\* A thread that serves no request.
\* What a call returns: nothing (None or unit), a flag, an id or a document.
RetNone == [kind |-> "none", flag |-> FALSE, id |-> <<>>, doc |-> <<>>]

RetBool(b) == [kind |-> "bool", flag |-> b, id |-> <<>>, doc |-> <<>>]

RetId(id) == [kind |-> "id", flag |-> FALSE, id |-> id, doc |-> <<>>]

RetDoc(doc) == [kind |-> "doc", flag |-> FALSE, id |-> <<>>, doc |-> doc]

\* No event was handed to realtime::broadcast.
NoEvent == [kind |-> "none", collection |-> <<>>, id |-> None, doc |-> None]

Idle ==
    [pc |-> "done", call |-> [op |-> "none"], image |-> <<>>, ret |-> RetNone, steps |-> <<>>,
     stored |-> EmptyMap, event |-> NoEvent]

Unlocked == [cols |-> 0, schemas |-> 0]

NoListener == [mode |-> "absent", socket |-> 0]

NoFile == [exists |-> FALSE, data |-> <<>>]

\* No pure function is being called.
NoCalc == [fn |-> "none", done |-> FALSE, input |-> <<>>, output |-> <<>>]

\* No fs::write is under way.
NoPending == [phase |-> "idle", image |-> <<>>, before |-> NoFile, torn |-> FALSE]

\* db::now, in seconds since the epoch.
now(t) == 1700000000 + t

Returned(op, collection, id, payload, result) ==
    [op |-> op, collection |-> collection, id |-> id, payload |-> payload, result |-> result]

\* fs::write of a whole image, without failure.
Written(image) == [exists |-> TRUE, data |-> image]

\* A store in use: create_collection("notes") and one insert have returned.
Seeded ==
    insert(create_collection_internal(Database_new, S_notes, <<field("title", "string")>>),
           S_notes, Payloads[1], random_hex(12, 1), now(0), now(0))

\* The first start (db::init with no data file), or the store in use.
Init ==
    /\ clock = 0
    /\ hasher \in 0..MaxHash
    /\ running = TRUE
    /\ nops = 0
    /\ threads = [t \in Threads |-> Idle]
    /\ locks = Unlocked
    /\ listener = NoListener
    /\ pending = NoPending
    /\ calc = NoCalc
    /\ \/ /\ collections = Database_new.collections
          /\ schemas = Database_new.schemas
          /\ file = [exists |-> FALSE, data |-> <<>>]
          /\ events = <<>>
          /\ last = Returned("init", <<>>, <<>>, 0, "ok")
       \/ /\ collections = Seeded.db.collections
          /\ schemas = Seeded.db.schemas
          /\ file = Written(sync(Seeded.db, 1, hasher))
          /\ events = <<broadcast_event("doc.created", S_notes,
                                        Some(find_one(Seeded.db, S_notes, Seeded.id).doc),
                                        Some(Seeded.id))>>
          /\ last = Returned("insert", S_notes, Seeded.id, 1, "some")

\* The test of line 31 left out.
any_collection_name(name) == TRUE

\* api::collections::create_collection, line 31.
valid_collection_name(name) == ~(is_empty(name) \/ starts_with(name, "_"))

\* The create_collection handler of the API with Database::create_collection.
ApiCreateCollection(admin, name, fields, r) ==
    /\ UNCHANGED conc
    /\ running /\ nops < MaxOps
    /\ nops' = nops + 1
    /\ IF ~admin
       THEN /\ last' = Returned("api_create_collection", name, <<>>, 0, "unauthorized")
            /\ events' = <<>>
            /\ UNCHANGED <<collections, schemas, file>>
       ELSE IF ~valid_collection_name(name)
       THEN /\ last' = Returned("api_create_collection", name, <<>>, 0, "bad_request")
            /\ events' = <<>>
            /\ UNCHANGED <<collections, schemas, file>>
       ELSE \E db \in {create_collection_internal(Database(collections, schemas), name, fields)} :
                /\ collections' = db.collections
                /\ schemas' = db.schemas
                /\ file' = Written(sync(db, r, hasher))
                /\ events' = <<broadcast_event("collection.created", name, None, None)>>
                /\ last' = Returned("api_create_collection", name, <<>>, 0, "created")
    /\ UNCHANGED <<clock, hasher, running>>

\* Database::delete_collection
DeleteCollection(name, r) ==
    /\ UNCHANGED conc
    /\ running /\ nops < MaxOps
    /\ nops' = nops + 1
    /\ \E res \in {delete_collection(Database(collections, schemas), name)} :
           IF ~res.ret
           THEN /\ last' = Returned("delete_collection", name, <<>>, 0, "false")
                /\ events' = <<>>
                /\ UNCHANGED <<collections, schemas, file>>
           ELSE /\ collections' = res.db.collections
                /\ schemas' = res.db.schemas
                /\ file' = Written(sync(res.db, r, hasher))
                /\ events' = <<broadcast_event("collection.deleted", name, None, None)>>
                /\ last' = Returned("delete_collection", name, <<>>, 0, "true")
    /\ UNCHANGED <<clock, hasher, running>>

\* Database::insert; r is the outcome of the random source during the call
\* and dt the time that passes between the two calls of now().
Insert(collection, i, r, dt) ==
    /\ UNCHANGED conc
    /\ running /\ nops < MaxOps /\ clock + dt <= MaxClock
    /\ nops' = nops + 1
    /\ clock' = clock + dt
    /\ \E res \in {insert(Database(collections, schemas), collection, Payloads[i],
                             random_hex(12, r), now(clock), now(clock + dt))} :
       \E found \in {find_one(res.db, collection, res.id)} :
           IF ~res.some
           THEN /\ dt = 0
                /\ last' = Returned("insert", collection, <<>>, i, "none")
                /\ events' = <<>>
                /\ UNCHANGED <<collections, schemas, file>>
           ELSE /\ collections' = res.db.collections
                /\ schemas' = res.db.schemas
                /\ file' = Written(sync(res.db, r, hasher))
                /\ events' = IF found.some
                             THEN <<broadcast_event("doc.created", collection,
                                                    Some(found.doc), Some(res.id))>>
                             ELSE <<>>
                /\ last' = Returned("insert", collection, res.id, i, "some")
    /\ UNCHANGED <<hasher, running>>

\* Database::update
Update(collection, id, i, r) ==
    /\ UNCHANGED conc
    /\ running /\ nops < MaxOps
    /\ nops' = nops + 1
    /\ \E res \in {update(Database(collections, schemas), collection, id, Payloads[i],
                             now(clock))} :
       \E found \in {find_one(res.db, collection, id)} :
           IF ~res.ret
           THEN /\ last' = Returned("update", collection, id, i, "false")
                /\ events' = <<>>
                /\ UNCHANGED <<collections, schemas, file>>
           ELSE /\ collections' = res.db.collections
                /\ schemas' = res.db.schemas
                /\ file' = Written(sync(res.db, r, hasher))
                /\ events' = IF found.some
                             THEN <<broadcast_event("doc.updated", collection,
                                                    Some(found.doc), Some(id))>>
                             ELSE <<>>
                /\ last' = Returned("update", collection, id, i, "true")
    /\ UNCHANGED <<clock, hasher, running>>

\* Database::delete
Delete(collection, id, r) ==
    /\ UNCHANGED conc
    /\ running /\ nops < MaxOps
    /\ nops' = nops + 1
    /\ \E res \in {delete(Database(collections, schemas), collection, id)} :
           IF ~res.ret
           THEN /\ last' = Returned("delete", collection, id, 0, "false")
                /\ events' = <<>>
                /\ UNCHANGED <<collections, schemas, file>>
           ELSE /\ collections' = res.db.collections
                /\ schemas' = res.db.schemas
                /\ file' = Written(sync(res.db, r, hasher))
                /\ events' = <<broadcast_event("doc.deleted", collection, None, Some(id))>>
                /\ last' = Returned("delete", collection, id, 0, "true")
    /\ UNCHANGED <<clock, hasher, running>>

\* The readers find_one, find_by and find_all.
FindOne(collection, id) ==
    /\ UNCHANGED conc
    /\ running /\ nops < MaxOps
    /\ nops' = nops + 1
    /\ last' = Returned("find_one", collection, id, 0,
                        find_one(Database(collections, schemas), collection, id))
    /\ events' = <<>>
    /\ UNCHANGED <<collections, schemas, file, clock, hasher, running>>

FindBy(collection, value) ==
    /\ UNCHANGED conc
    /\ running /\ nops < MaxOps
    /\ nops' = nops + 1
    /\ last' = Returned("find_by", collection, value, 0,
                        find_by(Database(collections, schemas), collection, S_title, value, hasher))
    /\ events' = <<>>
    /\ UNCHANGED <<collections, schemas, file, clock, hasher, running>>

FindAll(collection) ==
    /\ UNCHANGED conc
    /\ running /\ nops < MaxOps
    /\ nops' = nops + 1
    /\ last' = Returned("find_all", collection, <<>>, 0,
                        find_all(Database(collections, schemas), collection, hasher))
    /\ events' = <<>>
    /\ UNCHANGED <<collections, schemas, file, clock, hasher, running>>

\* Database::list_collections and Database::list_all_collections
ListCollections ==
    /\ UNCHANGED conc
    /\ running /\ nops < MaxOps
    /\ nops' = nops + 1
    /\ last' = Returned("list_collections", <<>>, <<>>, 0,
                        list_collections(Database(collections, schemas)))
    /\ events' = <<>>
    /\ UNCHANGED <<collections, schemas, file, clock, hasher, running>>

ListAllCollections ==
    /\ UNCHANGED conc
    /\ running /\ nops < MaxOps
    /\ nops' = nops + 1
    /\ last' = Returned("list_all_collections", <<>>, <<>>, 0,
                        list_all_collections(Database(collections, schemas)))
    /\ events' = <<>>
    /\ UNCHANGED <<collections, schemas, file, clock, hasher, running>>

\* The process ends and starts again: db::init on the file it left, with
\* new hashers.  A panic of Database::load ends the new process.
Restart(rid, h) ==
    /\ UNCHANGED conc
    /\ nops < MaxOps
    /\ nops' = nops + 1
    /\ \E res \in {init(file, rid)} :
           /\ running' = res.ok
           /\ collections' = IF res.ok THEN res.val.collections ELSE EmptyMap
           /\ schemas' = IF res.ok THEN res.val.schemas ELSE EmptyMap
           /\ last' = Returned("init", <<>>, <<>>, 0, IF res.ok THEN "ok" ELSE "panic")
    /\ hasher' = h
    /\ events' = <<>>
    /\ UNCHANGED <<file, clock>>

Next ==
    \/ \E admin \in BOOLEAN, name \in RequestNames, fields \in RequestFields, r \in 0..MaxRand :
           ApiCreateCollection(admin, name, fields, r)
    \/ \E name \in RequestNames, r \in 0..MaxRand : DeleteCollection(name, r)
    \/ \E collection \in DocCollections, i \in 1..Len(Payloads), r \in 0..MaxRand,
          dt \in 0..1 : Insert(collection, i, r, dt)
    \/ \E collection \in DocCollections, id \in RandomIds, i \in 1..Len(Payloads),
          r \in 0..MaxRand : Update(collection, id, i, r)
    \/ \E collection \in DocCollections, id \in RandomIds, r \in 0..MaxRand :
           Delete(collection, id, r)
    \/ \E collection \in DocCollections, id \in RandomIds : FindOne(collection, id)
    \/ \E collection \in DocCollections : FindBy(collection, as_bytes("hi"))
    \/ \E collection \in DocCollections : FindAll(collection)
    \/ ListCollections
    \/ ListAllCollections
    \/ \E rid \in 0..MaxRand, h \in 0..MaxHash : Restart(rid, h)

Spec == Init /\ [][Next]_vars

\* --------------------------------------------------------------- auth.rs
SESSION_DURATION == 86400 * 7

S_email == as_bytes("email")

S_role == as_bytes("role")

S_token == as_bytes("token")

S_user_id == as_bytes("user_id")

S_expires == as_bytes("expires")

valid_email(email) == Len(email) >= 3 /\ \E i \in 1..Len(email) : email[i] = code_unit("@")

valid_password(password) == Len(password) >= 8

\* AuthResult, with the store the call leaves and the events it emitted.
AuthResult_ok(token, user_id, db, evs) ==
    [success |-> TRUE, panic |-> FALSE, token |-> token, user_id |-> user_id,
     error |-> "", db |-> db, events |-> evs]

AuthResult_err(msg, db, evs) ==
    [success |-> FALSE, panic |-> FALSE, token |-> <<>>, user_id |-> <<>>,
     error |-> msg, db |-> db, events |-> evs]

\* Database::insert at time t with what it hands to broadcast_event.
inserted(db, collection, doc, id, t) ==
    Let(insert(db, collection, doc, id, now(t), now(t)), LAMBDA res :
        [some |-> res.some, id |-> res.id, db |-> res.db,
         events |-> IF res.some
                    THEN <<broadcast_event("doc.created", collection,
                                           Some(find_one(res.db, collection, res.id).doc),
                                           Some(res.id))>>
                    ELSE <<>>])

\* Database::delete with what it hands to broadcast_event.
deleted(db, collection, id) ==
    Let(delete(db, collection, id), LAMBDA res :
        [ret |-> res.ret, db |-> res.db,
         events |-> IF res.ret
                    THEN <<broadcast_event("doc.deleted", collection, None, Some(id))>>
                    ELSE <<>>])

\* create_session: token is what random_hex(32) returned, sid what
\* random_hex(12) returned inside insert.
create_session(db, user_id, token, sid, t) ==
    inserted(db, S_sessions,
             map_insert(map_insert(map_insert(EmptyMap,
                 S_user_id, Value_String(user_id)),
                 S_token, Value_String(token)),
                 S_expires, Value_Int(now(t) + SESSION_DURATION)),
             sid, t)

\* register: hash is what hash_password(password) returned, uid the id
\* insert drew for the user.
register(db, email, password, hash, uid, token, sid, h, t) ==
    IF find_by(db, S_users, S_email, email, h).some
    THEN AuthResult_err("Email already registered", db, <<>>)
    ELSE IF ~valid_email(email) THEN AuthResult_err("Invalid email", db, <<>>)
    ELSE IF ~valid_password(password)
    THEN AuthResult_err("Password must be at least 8 characters", db, <<>>)
    ELSE Let(find_all(db, S_users, h) = <<>>, LAMBDA is_first :
         Let(inserted(db, S_users,
                      map_insert(map_insert(map_insert(EmptyMap,
                          S_email, Value_String(email)),
                          S_password, Value_String(hash)),
                          S_role, Value_String(as_bytes(IF is_first THEN "admin" ELSE "user"))),
                      uid, t), LAMBDA user :
             IF ~user.some THEN AuthResult_err("Failed to create user", db, <<>>)
             ELSE Let(create_session(user.db, user.id, token, sid, t), LAMBDA session :
                      AuthResult_ok(token, user.id, session.db,
                                    user.events \o session.events))))

\* The test of expiry left out.
validate_token_unexpiring(db, token, h, t) ==
    Let(find_by(db, S_sessions, S_token, token, h), LAMBDA session :
        IF ~session.some THEN [ret |-> None, db |-> db, events |-> <<>>]
        ELSE [ret |-> IF contains_key(session.doc, S_user_id)
                      THEN as_str(session.doc[S_user_id]) ELSE None,
              db |-> db, events |-> <<>>])

validate_token(db, token, h, t) ==
    Let(find_by(db, S_sessions, S_token, token, h), LAMBDA session :
        IF ~session.some THEN [ret |-> None, db |-> db, events |-> <<>>]
        ELSE IF ~(contains_key(session.doc, S_expires) /\ session.doc[S_expires][1] = 2)
        THEN [ret |-> None, db |-> db, events |-> <<>>]
        ELSE IF session.doc[S_expires][2] < now(t)
        THEN IF contains_key(session.doc, S_id) /\ session.doc[S_id][1] = 4
             THEN Let(deleted(db, S_sessions, session.doc[S_id][2]), LAMBDA d :
                      [ret |-> None, db |-> d.db, events |-> d.events])
             ELSE [ret |-> None, db |-> db, events |-> <<>>]
        ELSE [ret |-> IF contains_key(session.doc, S_user_id)
                      THEN as_str(session.doc[S_user_id]) ELSE None,
              db |-> db, events |-> <<>>])

get_user(db, token, h, t) ==
    Let(validate_token(db, token, h, t), LAMBDA v :
        IF ~v.ret.some THEN [ret |-> None, db |-> v.db, events |-> v.events]
        ELSE Let(find_one(v.db, S_users, v.ret.v), LAMBDA user :
                 [ret |-> IF user.some THEN Some(map_remove(user.doc, S_password)) ELSE None,
                  db |-> v.db, events |-> v.events]))

\* logout that deletes nothing.
logout_keeps(db, token, h) == [ret |-> TRUE, db |-> db, events |-> <<>>]

logout(db, token, h) ==
    Let(find_by(db, S_sessions, S_token, token, h), LAMBDA session :
        IF session.some /\ contains_key(session.doc, S_id) /\ session.doc[S_id][1] = 4
        THEN deleted(db, S_sessions, session.doc[S_id][2])
        ELSE [ret |-> FALSE, db |-> db, events |-> <<>>])

is_admin(db, token, h, t) ==
    Let(get_user(db, token, h, t), LAMBDA u :
        [ret |-> /\ u.ret.some /\ contains_key(u.ret.v, S_role)
                 /\ as_str(u.ret.v[S_role]) = [some |-> TRUE, v |-> as_bytes("admin")],
         db |-> u.db, events |-> u.events])

\* login: the session is made with token and sid as create_session drew them.
login(db, email, password, token, sid, h, t) ==
    Let(find_by(db, S_users, S_email, email, h), LAMBDA user :
        IF ~user.some THEN AuthResult_err("Invalid credentials", db, <<>>)
        ELSE IF ~(contains_key(user.doc, S_password) /\ as_str(user.doc[S_password]).some)
        THEN AuthResult_err("Invalid credentials", db, <<>>)
        ELSE Let(verify_password(password, user.doc[S_password][2]), LAMBDA v :
             IF v.panic THEN [AuthResult_err("panic", db, <<>>) EXCEPT !.panic = TRUE]
             ELSE IF ~v.ret THEN AuthResult_err("Invalid credentials", db, <<>>)
             ELSE IF ~(contains_key(user.doc, S_id) /\ as_str(user.doc[S_id]).some)
             THEN AuthResult_err("User corrupt", db, <<>>)
             ELSE Let(create_session(db, user.doc[S_id][2], token, sid, t), LAMBDA session :
                      AuthResult_ok(token, user.doc[S_id][2], session.db, session.events))))

\* admin::update_user with a body that carries only "password"; hash is
\* what hash_password returned for it.
update_user(db, token, id, password, hash, h, t) ==
    Let(is_admin(db, token, h, t), LAMBDA admin :
        IF ~admin.ret THEN [status |-> "unauthorized", db |-> admin.db, events |-> admin.events]
        ELSE IF ~valid_password(password)
        THEN [status |-> "bad_request", db |-> admin.db, events |-> admin.events]
        ELSE Let(update(admin.db, S_users, id,
                        map_insert(EmptyMap, S_password, Value_String(hash)), now(t)),
                 LAMBDA u :
                 IF ~u.ret
                 THEN [status |-> "not_found", db |-> admin.db, events |-> admin.events]
                 ELSE [status |-> "ok", db |-> u.db,
                       events |-> admin.events
                                  \o <<broadcast_event("doc.updated", S_users,
                                                       Some(find_one(u.db, S_users, id).doc),
                                                       Some(id))>>]))

\* ------------------------------------------------- the auth handlers, state
EmailA == as_bytes("a@b")

Emails == {EmailA, as_bytes("c@d"), as_bytes("ab")}

GoodPassword == AuthPasswords[1]

\* What hash_password returns for GoodPassword under outcome r of the random
\* source.
GoodHash(r) == hash_password(GoodPassword, r)

ZeroToken == random_hex(32, 0)

UnknownToken == as_bytes("nope")

\* The n-th call draws from a stream of its own when the random source
\* answers, and gets zeros when it does not.
Drawn(answers, stream) == IF answers THEN stream ELSE 0

\* The store after the first register("a@b", "password") at time 0; the
\* random source answered the draw of the token, or not.
Registered(answered) ==
    register(Database_new, EmailA, GoodPassword, GoodHash(1), random_hex(12, 1),
             random_hex(32, Drawn(answered, 1)), random_hex(12, 9), 0, 0)

\* The tokens a request may carry: those of the sessions, the zero token and
\* one that no session has.
TokensOf(cols) ==
    {ZeroToken, UnknownToken}
    \cup {cols[S_sessions][k][S_token][2] : k \in keys(cols[S_sessions])}

AuthReturned(op, token, user_id, result) ==
    [op |-> op, collection |-> S_sessions, id |-> user_id, payload |-> 0,
     result |-> result, token |-> token]

InitAuth ==
    /\ clock = 0
    /\ hasher \in 0..MaxHash
    /\ running = TRUE
    /\ nops = 0
    /\ threads = [t \in Threads |-> Idle]
    /\ locks = Unlocked
    /\ listener = NoListener
    /\ pending = NoPending
    /\ calc = NoCalc
    /\ \/ /\ collections = Database_new.collections
          /\ schemas = Database_new.schemas
          /\ file = NoFile
          /\ events = <<>>
          /\ last = AuthReturned("init", <<>>, <<>>, "ok")
       \/ \E answered \in BOOLEAN :
          \E res \in {Registered(answered)} :
             /\ collections = res.db.collections
             /\ schemas = res.db.schemas
             /\ file = Written(sync(res.db, 1, hasher))
             /\ events = res.events
             /\ last = AuthReturned("register", res.token, res.user_id, "ok")

\* What a handler leaves: the store, the file sync wrote under outcome r of
\* the random source if the store changed, and the events.
Left(res, r) ==
    /\ collections' = res.db.collections
    /\ schemas' = res.db.schemas
    /\ events' = res.events
    /\ file' = IF res.events # <<>> THEN Written(sync(res.db, r, hasher)) ELSE file
    /\ UNCHANGED <<clock, hasher>>

\* POST /auth/register.  ids and tokened say whether the random source
\* answered the draws of the ids and the draw of the token.
Register(email, password, ids, tokened) ==
    /\ UNCHANGED conc
    /\ running /\ nops < MaxOps
    /\ nops' = nops + 1
    /\ \E res \in {register(Database(collections, schemas), email, password,
                            GoodHash(2 + nops), random_hex(12, Drawn(ids, 2 + nops)),
                            random_hex(32, Drawn(tokened, 2 + nops)),
                            random_hex(12, Drawn(ids, 10 + nops)), hasher, clock)} :
           /\ Left(res, Drawn(ids, 1))
           /\ last' = AuthReturned("register", res.token, res.user_id,
                                   IF res.success THEN "ok" ELSE "error")
    /\ running' = running

\* POST /auth/login
Login(email, password, ids, tokened) ==
    /\ UNCHANGED conc
    /\ running /\ nops < MaxOps
    /\ nops' = nops + 1
    /\ \E res \in {login(Database(collections, schemas), email, password,
                         random_hex(32, Drawn(tokened, 2 + nops)),
                         random_hex(12, Drawn(ids, 10 + nops)), hasher, clock)} :
           /\ Left(res, Drawn(ids, 1))
           /\ last' = AuthReturned("login", res.token, res.user_id,
                                   IF res.success THEN "ok" ELSE "error")
           /\ running' = ~res.panic

ValidateToken(token) ==
    /\ UNCHANGED conc
    /\ running /\ nops < MaxOps
    /\ nops' = nops + 1
    /\ \E res \in {validate_token(Database(collections, schemas), token, hasher, clock)} :
           /\ Left(res, 1)
           /\ last' = AuthReturned("validate_token", token,
                                   IF res.ret.some THEN res.ret.v ELSE <<>>,
                                   IF res.ret.some THEN "some" ELSE "none")
    /\ running' = running

GetUser(token) ==
    /\ UNCHANGED conc
    /\ running /\ nops < MaxOps
    /\ nops' = nops + 1
    /\ \E res \in {get_user(Database(collections, schemas), token, hasher, clock)} :
           /\ Left(res, 1)
           /\ last' = AuthReturned("get_user", token,
                                   IF res.ret.some /\ contains_key(res.ret.v, S_id)
                                   THEN res.ret.v[S_id][2] ELSE <<>>,
                                   IF res.ret.some THEN "some" ELSE "none")
    /\ running' = running

IsAdmin(token) ==
    /\ UNCHANGED conc
    /\ running /\ nops < MaxOps
    /\ nops' = nops + 1
    /\ \E res \in {is_admin(Database(collections, schemas), token, hasher, clock)} :
           /\ Left(res, 1)
           /\ last' = AuthReturned("is_admin", token, <<>>,
                                   IF res.ret THEN "true" ELSE "false")
    /\ running' = running

\* POST /auth/logout
Logout(token) ==
    /\ UNCHANGED conc
    /\ running /\ nops < MaxOps
    /\ nops' = nops + 1
    /\ \E res \in {logout(Database(collections, schemas), token, hasher)} :
           /\ Left(res, 1)
           /\ last' = AuthReturned("logout", token, <<>>,
                                   IF res.ret THEN "true" ELSE "false")
    /\ running' = running

\* PUT /admin/users/{id} with a new password.
UpdateUser(token, id, password) ==
    /\ UNCHANGED conc
    /\ running /\ nops < MaxOps
    /\ nops' = nops + 1
    /\ \E res \in {update_user(Database(collections, schemas), token, id, password,
                               GoodHash(2 + nops), hasher, clock)} :
           /\ Left(res, 1)
           /\ last' = AuthReturned("update_user", token, id, res.status)
    /\ running' = running

\* The clock moves on: by the life of a session, then by seconds.
Tick(dt) ==
    /\ UNCHANGED conc
    /\ running
    /\ clock + dt >= SESSION_DURATION /\ clock + dt <= SESSION_DURATION + MaxClock
    /\ clock' = clock + dt
    /\ UNCHANGED <<collections, schemas, file, hasher, running, events, last, nops>>

NextAuth ==
    \/ \E email \in Emails, p \in 1..Len(AuthPasswords), ids \in BOOLEAN, tokened \in BOOLEAN :
           Register(email, AuthPasswords[p], ids, tokened)
    \/ \E email \in Emails, p \in 1..Len(AuthPasswords), ids \in BOOLEAN, tokened \in BOOLEAN :
           Login(email, AuthPasswords[p], ids, tokened)
    \/ \E token \in TokensOf(collections) : ValidateToken(token)
    \/ \E token \in TokensOf(collections) : GetUser(token)
    \/ \E token \in TokensOf(collections) : IsAdmin(token)
    \/ \E token \in TokensOf(collections) : Logout(token)
    \/ \E token \in TokensOf(collections), id \in keys(collections[S_users]) \cup {<<>>} :
           UpdateUser(token, id, GoodPassword)
    \/ \E dt \in {1, SESSION_DURATION} : Tick(dt)

SpecAuth == InitAuth /\ [][NextAuth]_vars

\* ---------------------------------------------------------- request threads
\* The id of the document of the store in use.
SeededId == random_hex(12, 1)

Call(op, collection, id, payload, fields, r) ==
    [op |-> op, collection |-> collection, id |-> id, payload |-> payload,
     fields |-> fields, r |-> r]

\* The calls of the first thread and of the second.
Calls1 ==
    {Call("insert", S_notes, <<>>, 1, <<>>, 0),
     Call("update", S_notes, SeededId, 2, <<>>, 1),
     Call("create_collection", S_notes, <<>>, 0, <<field("title", "string")>>, 1)}

Calls2 ==
    {Call("delete", S_notes, SeededId, 0, <<>>, 0),
     Call("update", S_notes, SeededId, 1, <<>>, 0),
     Call("delete_collection", S_notes, <<>>, 0, <<>>, 1),
     Call("delete_collection", S_users, <<>>, 0, <<>>, 1),
     Call("find_one", S_notes, SeededId, 0, <<>>, 0)}

\* Bytes the socket of a listener that never reads still takes.
MaxSocket == 1

Listeners ==
    {NoListener, [mode |-> "gone", socket |-> 0]}
    \cup {[mode |-> "slow", socket |-> n] : n \in 0..MaxSocket}

\* Two requests arrive at the store in use.
InitConc ==
    /\ clock = 0
    /\ hasher = 0
    /\ running = TRUE
    /\ nops = 0
    /\ last = Returned("insert", S_notes, Seeded.id, 1, "some")
    /\ events = <<>>
    /\ collections = Seeded.db.collections
    /\ schemas = Seeded.db.schemas
    /\ file = Written(sync(Seeded.db, 1, hasher))
    /\ \E c1 \in Calls1, c2 \in Calls2 :
           threads = [t \in Threads |->
                         [pc |-> "start", call |-> IF t = 1 THEN c1 ELSE c2, image |-> <<>>,
                          ret |-> RetNone, steps |-> <<>>, stored |-> EmptyMap,
                          event |-> NoEvent]]
    /\ locks = Unlocked
    /\ listener \in Listeners
    /\ pending = NoPending
    /\ calc = NoCalc

\* RwLock::write can be taken: the lock has no writer (readers hold theirs
\* within one step).
always_free(lock) == TRUE

can_write(lock) == lock = 0

\* RwLock::read can be taken.
can_read(lock) == lock = 0

\* The guards of thread t leave scope.
keep_locks(held, t) == held

drop_locks(held, t) ==
    [cols |-> IF held.cols = t THEN 0 ELSE held.cols,
     schemas |-> IF held.schemas = t THEN 0 ELSE held.schemas]

\* The order of the statements that follow the change in memory.
following_event_first(label) ==
    CASE label = "change" -> "emit"
      [] label = "emit" -> "serialize"
      [] label = "serialize" -> "write"
      [] label = "write" -> "return"
      [] label = "return" -> "done"

following(label) ==
    CASE label = "change" -> "serialize"
      [] label = "serialize" -> "write"
      [] label = "write" -> "emit"
      [] label = "emit" -> "return"
      [] label = "return" -> "done"

DocOps == {"insert", "update", "delete"}

CollectionOps == {"create_collection", "delete_collection"}

At(t, label) == threads[t].pc = label

Moved(t, label, step) ==
    [threads EXCEPT ![t].pc = label, ![t].steps = Append(@, step)]

\* `self.collections.write().unwrap()`, the first statement of the call.
AcquireCols(t) ==
    /\ At(t, "start")
    /\ threads[t].call.op \in DocOps \cup CollectionOps
    /\ ~(threads[t].call.op = "delete_collection" /\ starts_with(threads[t].call.collection, "_"))
    /\ can_write(locks.cols)
    /\ locks' = [locks EXCEPT !.cols = t]
    /\ threads' = [threads EXCEPT ![t].pc =
                       IF threads[t].call.op \in DocOps THEN "locked" ELSE "cols_locked"]
    /\ UNCHANGED <<collections, schemas, file, hasher, events, listener>>
    /\ UNCHANGED seq

\* delete_collection line 210: `if name.starts_with('_') { return false; }`
Refuse(t) ==
    /\ At(t, "start")
    /\ threads[t].call.op = "delete_collection" /\ starts_with(threads[t].call.collection, "_")
    /\ threads' = [threads EXCEPT ![t].pc = "done", ![t].ret = RetBool(FALSE),
                                  ![t].steps = Append(@, "return")]
    /\ UNCHANGED <<collections, schemas, file, hasher, events, listener, locks>>
    /\ UNCHANGED seq

\* `self.schemas.write().unwrap()`
AcquireSchemas(t) ==
    /\ At(t, "cols_locked")
    /\ can_write(locks.schemas)
    /\ locks' = [locks EXCEPT !.schemas = t]
    /\ threads' = [threads EXCEPT ![t].pc = "locked"]
    /\ UNCHANGED <<collections, schemas, file, hasher, events, listener>>
    /\ UNCHANGED seq

\* The statements of insert, update and delete under the lock, to drop(cols)
\* or to the return of the call that found nothing.
MutateDoc(t) ==
    /\ At(t, "locked")
    /\ threads[t].call.op \in DocOps
    /\ \E c \in {threads[t].call} :
       \E res \in {CASE c.op = "insert" ->
                        Let(insert(Database(collections, schemas), c.collection,
                                   Payloads[c.payload], random_hex(12, c.r),
                                   now(clock), now(clock)), LAMBDA i :
                            [ok |-> i.some, db |-> i.db,
                             ret |-> IF i.some THEN RetId(i.id) ELSE RetNone,
                             stored |-> IF i.some THEN i.db.collections[c.collection][i.id]
                                        ELSE EmptyMap])
                      [] c.op = "update" ->
                        Let(update(Database(collections, schemas), c.collection, c.id,
                                   Payloads[c.payload], now(clock)), LAMBDA u :
                            [ok |-> u.ret, db |-> u.db, ret |-> RetBool(u.ret),
                             stored |-> IF u.ret THEN u.db.collections[c.collection][c.id]
                                        ELSE EmptyMap])
                      [] c.op = "delete" ->
                        Let(delete(Database(collections, schemas), c.collection, c.id),
                            LAMBDA d : [ok |-> d.ret, db |-> d.db, ret |-> RetBool(d.ret),
                                        stored |-> EmptyMap])} :
           /\ collections' = res.db.collections
           /\ threads' = [threads EXCEPT ![t].ret = res.ret, ![t].stored = res.stored,
                              ![t].pc = IF res.ok THEN following("change") ELSE "done",
                              ![t].steps = Append(@, IF res.ok THEN "change" ELSE "return")]
    /\ locks' = drop_locks(locks, t)
    /\ UNCHANGED <<schemas, file, hasher, events, listener>>
    /\ UNCHANGED seq

\* `cols.insert(name, HashMap::new())` or `cols.remove(name)`
ChangeCols(t) ==
    /\ At(t, "locked")
    /\ threads[t].call.op \in CollectionOps
    /\ collections' = IF threads[t].call.op = "create_collection"
                      THEN map_insert(collections, threads[t].call.collection, EmptyMap)
                      ELSE map_remove(collections, threads[t].call.collection)
    /\ threads' = [threads EXCEPT ![t].pc = "cols_changed"]
    /\ UNCHANGED <<schemas, file, hasher, events, listener, locks>>
    /\ UNCHANGED seq

\* `schemas.insert(name, Schema { fields })` or `schemas.remove(name)`, then
\* the guards are dropped.
ChangeSchemas(t) ==
    /\ At(t, "cols_changed")
    /\ schemas' = IF threads[t].call.op = "create_collection"
                  THEN map_insert(schemas, threads[t].call.collection, threads[t].call.fields)
                  ELSE map_remove(schemas, threads[t].call.collection)
    /\ threads' = [threads EXCEPT ![t].pc = following("change"),
                       ![t].steps = Append(@, "change"),
                       ![t].ret = IF threads[t].call.op = "create_collection"
                                  THEN RetNone ELSE RetBool(TRUE)]
    /\ locks' = drop_locks(locks, t)
    /\ UNCHANGED <<collections, file, hasher, events, listener>>
    /\ UNCHANGED seq

\* find_one called for a request.
ReadDoc(t) ==
    /\ At(t, "start")
    /\ threads[t].call.op = "find_one"
    /\ can_read(locks.cols)
    /\ \E found \in {find_one(Database(collections, schemas), threads[t].call.collection,
                                threads[t].call.id)} :
           threads' = [threads EXCEPT ![t].pc = "done",
                          ![t].ret = IF found.some THEN RetDoc(found.doc) ELSE RetNone,
                          ![t].steps = Append(@, "return")]
    /\ UNCHANGED <<collections, schemas, file, hasher, events, listener, locks>>
    /\ UNCHANGED seq

\* sync, to the bytes of file_data: serialize under both read locks, then
\* encrypt.
Serialize(t) ==
    /\ At(t, "serialize")
    /\ can_read(locks.cols) /\ can_read(locks.schemas)
    /\ threads' = [threads EXCEPT ![t].pc = following("serialize"),
                       ![t].image = sync(Database(collections, schemas),
                                         threads[t].call.r, hasher)]
    /\ UNCHANGED <<collections, schemas, file, hasher, events, listener, locks>>
    /\ UNCHANGED seq

\* sync: `fs::write(db_path(), &file_data)`
WriteFile(t) ==
    /\ At(t, "write")
    /\ file' = Written(threads[t].image)
    /\ threads' = Moved(t, following("write"), "write")
    /\ UNCHANGED <<collections, schemas, hasher, events, listener, locks>>
    /\ UNCHANGED seq

\* The event of the call of thread t, if it emits one: insert and update
\* emit when find_one finds the document.
EventOf(t) ==
    Let(threads[t].call, LAMBDA c :
        CASE c.op = "create_collection" ->
               Some(broadcast_event("collection.created", c.collection, None, None))
          [] c.op = "delete_collection" ->
               Some(broadcast_event("collection.deleted", c.collection, None, None))
          [] c.op = "delete" ->
               Some(broadcast_event("doc.deleted", c.collection, None, Some(c.id)))
          [] c.op \in {"insert", "update"} ->
               Let(IF c.op = "insert" THEN threads[t].ret.id ELSE c.id, LAMBDA id :
               Let(find_one(Database(collections, schemas), c.collection, id), LAMBDA found :
                   IF found.some
                   THEN Some(broadcast_event(IF c.op = "insert" THEN "doc.created"
                                                                ELSE "doc.updated",
                                             c.collection, Some(found.doc), Some(id)))
                   ELSE None)))

\* broadcast_event and realtime::broadcast: write_text to the client blocks
\* while its socket has no room, and a client whose write fails is removed.
Emit(t) ==
    /\ At(t, "emit")
    /\ can_read(locks.cols)
    /\ \E ev \in {EventOf(t)} :
           IF ~ev.some
           THEN /\ threads' = [threads EXCEPT ![t].pc = following("emit")]
                /\ UNCHANGED <<events, listener>>
           ELSE /\ listener.mode = "slow" => listener.socket < MaxSocket
                /\ events' = Append(events, ev.v)
                /\ listener' = CASE listener.mode = "slow" ->
                                       [listener EXCEPT !.socket = @ + 1]
                                  [] listener.mode = "gone" -> NoListener
                                  [] OTHER -> listener
                /\ threads' = [threads EXCEPT ![t].pc = following("emit"),
                                   ![t].steps = Append(@, "event"), ![t].event = ev.v]
    /\ UNCHANGED <<collections, schemas, file, hasher, locks>>
    /\ UNCHANGED seq

\* The call returns.
Return(t) ==
    /\ At(t, "return")
    /\ threads' = Moved(t, following("return"), "return")
    /\ UNCHANGED <<collections, schemas, file, hasher, events, listener, locks>>
    /\ UNCHANGED seq

ThreadStep(t) ==
    \/ AcquireCols(t)
    \/ Refuse(t)
    \/ AcquireSchemas(t)
    \/ MutateDoc(t)
    \/ ChangeCols(t)
    \/ ChangeSchemas(t)
    \/ ReadDoc(t)
    \/ Serialize(t)
    \/ WriteFile(t)
    \/ Emit(t)
    \/ Return(t)

NextConc == \E t \in Threads : ThreadStep(t)

SpecConc == InitConc /\ [][NextConc]_vars

\* The threads are scheduled: a thread that can take a step takes one.
SpecConcFair == SpecConc /\ \A t \in Threads : WF_vars(ThreadStep(t))

\* ------------------------------------------------- load beside a request
\* Database::load, line 303: `fs::read(db_path())` and the test of the header.
LoadRead(t) ==
    /\ At(t, "start")
    /\ threads[t].call.op = "load"
    /\ threads' = IF ~file.exists \/ Len(file.data) < 14 \/ file.data[1] # DB_VERSION
                  THEN [threads EXCEPT ![t].pc = "done", ![t].steps = Append(@, "return")]
                  ELSE [threads EXCEPT ![t].pc = "deserialize", ![t].image = file.data]
    /\ UNCHANGED <<collections, schemas, file, hasher, events, listener, locks>>
    /\ UNCHANGED seq

\* deserialize, line 255: `self.schemas.write().unwrap()`
LoadSchemas(t) ==
    /\ At(t, "deserialize")
    /\ can_write(locks.schemas)
    /\ locks' = [locks EXCEPT !.schemas = t]
    /\ threads' = [threads EXCEPT ![t].pc = "schemas_locked"]
    /\ UNCHANGED <<collections, schemas, file, hasher, events, listener>>
    /\ UNCHANGED seq

\* deserialize, line 256 to its end: `self.collections.write().unwrap()`,
\* the maps are filled from the bytes (whole, as sync wrote them) and both
\* guards are dropped.
LoadCols(t) ==
    /\ At(t, "schemas_locked")
    /\ can_write(locks.cols)
    /\ \E d \in {deserialize(Database(collections, schemas),
                              chacha20(encryption_key, SubSeq(threads[t].image, 2, 13),
                                       SubSeq(threads[t].image, 14, Len(threads[t].image))))} :
           /\ d.ok
           /\ collections' = d.val.collections
           /\ schemas' = d.val.schemas
    /\ locks' = drop_locks(locks, t)
    /\ threads' = [threads EXCEPT ![t].pc = "migrate"]
    /\ UNCHANGED <<file, hasher, events, listener>>
    /\ UNCHANGED seq

\* ensure_internal_collections, line 326: `self.collections.write().unwrap()`
MigrateCols(t) ==
    /\ At(t, "migrate")
    /\ can_write(locks.cols)
    /\ locks' = [locks EXCEPT !.cols = t]
    /\ threads' = [threads EXCEPT ![t].pc = "migrate_cols"]
    /\ UNCHANGED <<collections, schemas, file, hasher, events, listener>>
    /\ UNCHANGED seq

\* ensure_internal_collections, line 327 to its end.
MigrateSchemas(t) ==
    /\ At(t, "migrate_cols")
    /\ can_write(locks.schemas)
    /\ \E db \in {ensure_internal_collections(Database(collections, schemas))} :
           collections' = db.collections /\ schemas' = db.schemas
    /\ locks' = drop_locks(locks, t)
    /\ threads' = [threads EXCEPT ![t].pc = "settings"]
    /\ UNCHANGED <<file, hasher, events, listener>>
    /\ UNCHANGED seq

\* ensure_settings_defaults, under the write lock of collections.
MigrateSettings(t) ==
    /\ At(t, "settings")
    /\ can_write(locks.cols)
    /\ collections' = ensure_settings_defaults(Database(collections, schemas),
                                               threads[t].call.r).collections
    /\ threads' = [threads EXCEPT ![t].pc = "done", ![t].steps = Append(@, "return")]
    /\ UNCHANGED <<schemas, file, hasher, events, listener, locks>>
    /\ UNCHANGED seq

LoadStep(t) ==
    \/ LoadRead(t)
    \/ LoadSchemas(t)
    \/ LoadCols(t)
    \/ MigrateCols(t)
    \/ MigrateSchemas(t)
    \/ MigrateSettings(t)

\* A request arrives at the store in use while db::init loads the file.
InitLoad ==
    /\ clock = 0
    /\ hasher = 0
    /\ running = TRUE
    /\ nops = 0
    /\ last = Returned("insert", S_notes, Seeded.id, 1, "some")
    /\ events = <<>>
    /\ collections = Seeded.db.collections
    /\ schemas = Seeded.db.schemas
    /\ file = Written(sync(Seeded.db, 1, hasher))
    /\ \E c1 \in Calls1 \cup Calls2 :
           threads = [t \in Threads |->
                         [pc |-> "start",
                          call |-> IF t = 1 THEN c1 ELSE Call("load", <<>>, <<>>, 0, <<>>, 1),
                          image |-> <<>>, ret |-> RetNone, steps |-> <<>>,
                          stored |-> EmptyMap, event |-> NoEvent]]
    /\ locks = Unlocked
    /\ listener = NoListener
    /\ pending = NoPending
    /\ calc = NoCalc

NextLoad == \E t \in Threads : ThreadStep(t) \/ LoadStep(t)

SpecLoad == InitLoad /\ [][NextLoad]_vars

\* ------------------------------------------- two requests that make users
\* POST /auth/register and POST /api/admin/users running in two threads of
\* the shared Database.  Each call of a Database method is taken whole (its
\* guards are dropped when it returns); the threads interleave between calls.
AdminToken == Registered(TRUE).token

\* The Authorization header of a request to the admin API.
RaceTokens == <<UnknownToken, AdminToken>>

\* op with the email of its body; token is the index of its bearer token and
\* r the stream its random draws come from.
UserCall(op, email, token, r) ==
    [op |-> op, collection |-> S_users, id |-> email, payload |-> token,
     fields |-> <<>>, r |-> r]

UserCalls(t) ==
    {UserCall("register", e, 1, t + 1) : e \in Emails}
    \cup {UserCall("create_user", e, p, t + 1) :
              e \in Emails \ {EmailA}, p \in 1..Len(RaceTokens)}

\* What the store keeps of a change: memory, the file sync wrote, the events.
Kept(res) ==
    /\ collections' = res.db.collections
    /\ schemas' = res.db.schemas
    /\ events' = res.events
    /\ file' = IF res.events # <<>> THEN Written(sync(res.db, 1, hasher)) ELSE file

\* create_user, line 37: `if !require_admin(req) { return unauthorized }`
Authorize(t) ==
    /\ At(t, "start")
    /\ threads[t].call.op = "create_user"
    /\ \E a \in {is_admin(Database(collections, schemas),
                          RaceTokens[threads[t].call.payload], hasher, clock)} :
           /\ Kept(a)
           /\ threads' = [threads EXCEPT ![t].pc = IF a.ret THEN "check" ELSE "return",
                                         ![t].ret = RetBool(FALSE),
                                         ![t].steps = Append(@, "authorize")]
    /\ UNCHANGED <<hasher, listener, locks>>
    /\ UNCHANGED seq

\* register, lines 28-38, and create_user, lines 43-54: the tests of the
\* body and `find_by("_users", "email", email).is_some()`.
CheckEmail(t) ==
    /\ \/ At(t, "start") /\ threads[t].call.op = "register"
       \/ At(t, "check") /\ threads[t].call.op = "create_user"
    /\ threads' =
           [threads EXCEPT
               ![t].pc = IF \/ find_by(Database(collections, schemas), S_users, S_email,
                                       threads[t].call.id, hasher).some
                            \/ ~valid_email(threads[t].call.id)
                            \/ ~valid_password(GoodPassword)
                         THEN "return"
                         ELSE IF threads[t].call.op = "register" THEN "count" ELSE "build",
               ![t].ret = RetBool(FALSE),
               ![t].steps = Append(@, "check")]
    /\ UNCHANGED <<collections, schemas, file, hasher, events, listener, locks>>
    /\ UNCHANGED seq

\* The document of the new user.
UserDoc(email, hash, role) ==
    map_insert(map_insert(map_insert(EmptyMap,
        S_email, Value_String(email)),
        S_password, Value_String(hash)),
        S_role, Value_String(as_bytes(role)))

\* register, lines 41-45: `is_first = db.find_all("_users").is_empty()` and
\* the document with the role it gives.
CountUsers(t) ==
    /\ At(t, "count")
    /\ \E is_first \in {find_all(Database(collections, schemas), S_users, hasher) = <<>>} :
           threads' = [threads EXCEPT
                          ![t].pc = "insert",
                          ![t].stored = UserDoc(threads[t].call.id, GoodHash(threads[t].call.r),
                                                IF is_first THEN "admin" ELSE "user"),
                          ![t].steps = Append(@, "count")]
    /\ UNCHANGED <<collections, schemas, file, hasher, events, listener, locks>>
    /\ UNCHANGED seq

\* create_user, lines 56-59: the document, with the role of the body
\* (`unwrap_or("user")`).
BuildUser(t) ==
    /\ At(t, "build")
    /\ threads' = [threads EXCEPT
                      ![t].pc = "insert",
                      ![t].stored = UserDoc(threads[t].call.id, GoodHash(threads[t].call.r),
                                            "user"),
                      ![t].steps = Append(@, "build")]
    /\ UNCHANGED <<collections, schemas, file, hasher, events, listener, locks>>
    /\ UNCHANGED seq

\* `db.insert("_users", doc)`, register line 47 and create_user line 61.
InsertUser(t) ==
    /\ At(t, "insert")
    /\ \E res \in {inserted(Database(collections, schemas), S_users, threads[t].stored,
                            random_hex(12, threads[t].call.r), clock)} :
           /\ Kept(res)
           /\ threads' = [threads EXCEPT
                             ![t].pc = IF res.some /\ threads[t].call.op = "register"
                                       THEN "session" ELSE "return",
                             ![t].ret = IF res.some THEN RetId(res.id) ELSE RetBool(FALSE),
                             ![t].steps = Append(@, "insert")]
    /\ UNCHANGED <<hasher, listener, locks>>
    /\ UNCHANGED seq

\* register, line 49: `create_session(&user_id)`
CreateSession(t) ==
    /\ At(t, "session")
    /\ \E res \in {create_session(Database(collections, schemas), threads[t].ret.id,
                                  random_hex(32, threads[t].call.r),
                                  random_hex(12, 10 + threads[t].call.r), clock)} :
           /\ Kept(res)
           /\ threads' = [threads EXCEPT ![t].pc = "return",
                                         ![t].steps = Append(@, "session")]
    /\ UNCHANGED <<hasher, listener, locks>>
    /\ UNCHANGED seq

UserStep(t) ==
    \/ Authorize(t)
    \/ CheckEmail(t)
    \/ CountUsers(t)
    \/ BuildUser(t)
    \/ InsertUser(t)
    \/ CreateSession(t)
    \/ Return(t)

\* Two requests arrive at a new store, or at one whose admin has registered.
InitUsers ==
    /\ clock = 0
    /\ hasher = 0
    /\ running = TRUE
    /\ nops = 0
    /\ last = AuthReturned("init", <<>>, <<>>, "ok")
    /\ events = <<>>
    /\ \E db \in {Database_new, Registered(TRUE).db} :
           /\ collections = db.collections
           /\ schemas = db.schemas
           /\ file = IF db = Database_new THEN NoFile ELSE Written(sync(db, 1, hasher))
    /\ \E c1 \in UserCalls(1), c2 \in UserCalls(2) :
           threads = [t \in Threads |->
                         [pc |-> "start", call |-> IF t = 1 THEN c1 ELSE c2, image |-> <<>>,
                          ret |-> RetNone, steps |-> <<>>, stored |-> EmptyMap,
                          event |-> NoEvent]]
    /\ locks = Unlocked
    /\ listener = NoListener
    /\ pending = NoPending
    /\ calc = NoCalc

NextUsers == \E t \in Threads : UserStep(t)

SpecUsers == InitUsers /\ [][NextUsers]_vars

\* What a call returns and leaves in memory when it runs alone.
Alone(db, c) ==
    CASE c.op = "insert" ->
           Let(insert(db, c.collection, Payloads[c.payload], random_hex(12, c.r),
                      now(clock), now(clock)), LAMBDA i :
               [db |-> i.db, ret |-> IF i.some THEN RetId(i.id) ELSE RetNone])
      [] c.op = "update" ->
           Let(update(db, c.collection, c.id, Payloads[c.payload], now(clock)), LAMBDA u :
               [db |-> u.db, ret |-> RetBool(u.ret)])
      [] c.op = "delete" ->
           Let(delete(db, c.collection, c.id), LAMBDA d : [db |-> d.db, ret |-> RetBool(d.ret)])
      [] c.op = "delete_collection" ->
           Let(delete_collection(db, c.collection), LAMBDA d :
               [db |-> d.db, ret |-> RetBool(d.ret)])
      [] c.op = "create_collection" ->
           [db |-> create_collection_internal(db, c.collection, c.fields), ret |-> RetNone]
      [] c.op = "find_one" ->
           Let(find_one(db, c.collection, c.id), LAMBDA found :
               [db |-> db, ret |-> IF found.some THEN RetDoc(found.doc) ELSE RetNone])

\* -------------------------------------------------- crashes during a write
\* The file of the store in use, and the same file with another version byte.
SeededFile == Written(sync(Seeded.db, 1, 0))

ForeignFile == Written(<<DB_VERSION + 1>> \o Tail(SeededFile.data))

\* Mutating calls between two starts of the process.
MaxWrites == 1

\* The mutating calls a crash can interrupt.
CrashCalls == (Calls1 \cup Calls2) \ {c \in Calls2 : c.op = "find_one"}

\* Written lengths at which a crash can leave the file: the header without
\* its last byte, the header, one byte of ciphertext, half and all but one.
Cuts(image) ==
    {n \in {12, 13, 14, Len(image) \div 2, Len(image) - 1} : n < Len(image)}

\* The process is not running; the data directory holds no file, a file of
\* this version or a file of another version.
InitCrash ==
    /\ clock = 0
    /\ hasher = 0
    /\ running = FALSE
    /\ nops = 0
    /\ last = Returned("off", <<>>, <<>>, 0, "ok")
    /\ events = <<>>
    /\ collections = EmptyMap
    /\ schemas = EmptyMap
    /\ file \in {NoFile, SeededFile, ForeignFile}
    /\ threads = [t \in Threads |-> Idle]
    /\ locks = Unlocked
    /\ listener = NoListener
    /\ pending = [NoPending EXCEPT !.before = file]
    /\ calc = NoCalc

\* A mutating call changes memory and sync has the bytes for fs::write.
CrashMutate(c, r) ==
    /\ running /\ pending.phase = "idle" /\ nops < MaxWrites
    /\ \E res \in {Alone(Database(collections, schemas), c)} :
           /\ res.ret.kind = "id" \/ res.ret.flag \/ c.op = "create_collection"
           /\ collections' = res.db.collections
           /\ schemas' = res.db.schemas
           /\ pending' = [phase |-> "truncate", image |-> sync(res.db, r, hasher),
                          before |-> file, torn |-> FALSE]
    /\ nops' = nops + 1
    /\ last' = Returned(c.op, c.collection, c.id, c.payload, "writing")
    /\ events' = <<>>
    /\ UNCHANGED <<file, clock, hasher, running, threads, locks, listener, calc>>

\* fs::write opens the file with truncate.
Truncate ==
    /\ running /\ pending.phase = "truncate"
    /\ file' = Written(<<>>)
    /\ pending' = [pending EXCEPT !.phase = "writing"]
    /\ UNCHANGED <<collections, schemas, clock, hasher, running, events, last, nops,
                   threads, locks, listener, calc>>

\* write_all has written the first n bytes.
WritePart(n) ==
    /\ running /\ pending.phase = "writing"
    /\ n > Len(file.data)
    /\ file' = Written(SubSeq(pending.image, 1, n))
    /\ UNCHANGED <<collections, schemas, clock, hasher, running, events, last, nops,
                   threads, locks, listener, pending, calc>>

\* write_all has written every byte and the call returns.
WriteRest ==
    /\ running /\ pending.phase = "writing"
    /\ file' = Written(pending.image)
    /\ pending' = [pending EXCEPT !.phase = "idle"]
    /\ last' = [last EXCEPT !.result = "written"]
    /\ UNCHANGED <<collections, schemas, clock, hasher, running, events, nops,
                   threads, locks, listener, calc>>

\* The process is killed: memory is lost, the file stays as it is.
Crash ==
    /\ running
    /\ running' = FALSE
    /\ collections' = EmptyMap
    /\ schemas' = EmptyMap
    /\ pending' = [pending EXCEPT !.phase = "off", !.torn = pending.phase # "idle"]
    /\ last' = Returned("crash", <<>>, <<>>, 0, "ok")
    /\ events' = <<>>
    /\ UNCHANGED <<file, clock, hasher, nops, threads, locks, listener, calc>>

\* The process starts: db::init on the file the last process left.  A panic
\* of Database::load ends the new process.
Recover(rid) ==
    /\ ~running
    /\ \E res \in {init(file, rid)} :
           /\ running' = res.ok
           /\ collections' = IF res.ok THEN res.val.collections ELSE EmptyMap
           /\ schemas' = IF res.ok THEN res.val.schemas ELSE EmptyMap
           /\ last' = Returned("init", <<>>, <<>>, 0, IF res.ok THEN "ok" ELSE "panic")
    /\ pending' = [pending EXCEPT !.phase = "idle"]
    /\ events' = <<>>
    /\ UNCHANGED <<file, clock, hasher, nops, threads, locks, listener, calc>>

NextCrash ==
    \/ \E c \in CrashCalls, r \in 0..MaxRand : CrashMutate(c, r)
    \/ Truncate
    \/ \E n \in Cuts(pending.image) : WritePart(n)
    \/ WriteRest
    \/ Crash
    \/ \E rid \in 0..MaxRand : Recover(rid)

SpecCrash == InitCrash /\ [][NextCrash]_vars

\* ------------------------------------------------ calls of pure functions
\* Values without nesting.
Scalars ==
    <<Value_Null, Value_Bool(TRUE), Value_Bool(FALSE), Value_Int(0), Value_Int(-5),
      Value_Int(1700000000), Value_String(<<>>), Value_String(as_bytes("hi"))>>

\* A value nested three deep: an array holding an array and an object.
Nested ==
    Value_Array(<<Value_Array(<<Value_Int(1), Value_Array(<<>>)>>),
                  Value_Object(map_insert(map_insert(EmptyMap, as_bytes("k"), Value_Null),
                                          as_bytes("o"), Value_Object(EmptyMap)))>>)

\* The values documents are built from: Null, Bool, Int, String, Array, Object.
Values ==
    Scalars
    \o [i \in 1..Len(Scalars) |-> Value_Array(<<Scalars[i], Scalars[Len(Scalars) + 1 - i]>>)]
    \o [i \in 1..Len(Scalars) |->
           Value_Object(map_insert(map_insert(EmptyMap, as_bytes("a"), Scalars[i]),
                                   as_bytes("bb"), Value_Array(<<Scalars[i]>>)))]
    \o <<Value_Array(<<>>), Value_Object(EmptyMap), Nested>>

\* The documents given to write_doc: empty, of one field and of two.
Documents ==
    <<EmptyMap>>
    \o [i \in 1..Len(Values) |-> map_insert(EmptyMap, as_bytes("x"), Values[i])]
    \o [i \in 1..(Len(Values) - 1) |->
           map_insert(map_insert(EmptyMap, as_bytes("x"), Values[i]),
                      as_bytes("yy"), Values[i + 1])]

\* Keys, nonces and data given to chacha20.
CipherKeys ==
    <<encryption_key, SubSeq([i \in 1..32 |-> 0], 1, 32), SubSeq([i \in 1..32 |-> i], 1, 32)>>

CipherNonces ==
    <<random_bytes(12, 0), random_bytes(12, 1), SubSeq([i \in 1..12 |-> 255 - i], 1, 12)>>

DataLengths == <<0, 1, 63, 64, 65, 130>>

CipherData(n) == SubSeq([i \in 1..n |-> (7 * i) % 256], 1, n)

\* Messages given to sha256 with their FIPS 180-4 digests in hex.
Repeat(c, n) == SubSeq([i \in 1..n |-> c], 1, n)

TestVectors ==
    <<<<as_bytes("abc"),
        "ba7816bf8f01cfea414140de5dae2223b00361a396177a9cb410ff61f20015ad">>,
      <<<<>>,
        "e3b0c44298fc1c149afbf4c8996fb92427ae41e4649b934ca495991b7852b855">>,
      <<as_bytes("abcdbcdecdefdefgefghfghighijhijkijkljklmklmnlmnomnopnopq"),
        "248d6a61d20638b8e5c026930c3e6039a33ce45964ff2167f6ecedd419db06c1">>,
      <<Repeat(97, 55),
        "9f4390f8d30c2dd92ec9f095b65e2b9ae9b0a925a5258e241c9f1e910f734318">>,
      <<Repeat(97, 64),
        "ffe054fe7ae0cb6dc65c3af9b61d5209f439851db43d0ba5997337df154668eb">>,
      <<as_bytes("default-insecure-key-change-me"),
        "b97f5d704f4b25136da9fa76c804930055c19d3a8615590911b7ba49db2d188a">>>>

\* Passwords: empty, short, holding the separator, longer than an HMAC block.
Passwords == <<<<>>, as_bytes("pw"), as_bytes("a:b"), Repeat(112, 65)>>

\* Stores whose files are loaded: a new one, one whose `_settings` document
\* sets two of the canonical fields, one with a second settings document,
\* and one written before `_ports` existed.
CustomSettings ==
    map_insert(map_insert(EmptyMap, as_bytes("page_title"), Value_String(as_bytes("Mine"))),
               as_bytes("app_port"), Value_Int(80))

Stores ==
    Let(insert(Database_new, S_settings, CustomSettings, random_hex(12, 0), now(0), now(0)).db,
        LAMBDA custom :
        <<Database_new,
          custom,
          insert(custom, S_settings, Payloads[1], random_hex(12, 1), now(1), now(1)).db,
          Database(map_remove(custom.collections, S_ports),
                   map_remove(custom.schemas, S_ports))>>)

\* Stored strings that are not what hash_password writes.
Malformed ==
    <<"", "abcd", "ab:cd:ef", "zz:00", "00:zz", "abc:00", "00:abc", "00:00", ":",
      "zzz:00", "00:zzz", "0g:00">>

Asked(fn, input) == [fn |-> fn, done |-> FALSE, input |-> input, output |-> <<>>]

\* A pure function is about to be called on one of its inputs.
InitPure ==
    /\ clock = 0
    /\ hasher = 0
    /\ running = FALSE
    /\ nops = 0
    /\ last = Returned("off", <<>>, <<>>, 0, "ok")
    /\ events = <<>>
    /\ collections = EmptyMap
    /\ schemas = EmptyMap
    /\ file = NoFile
    /\ threads = [t \in Threads |-> Idle]
    /\ locks = Unlocked
    /\ listener = NoListener
    /\ pending = NoPending
    /\ \/ \E i \in 1..Len(Documents), h \in 0..MaxHash :
             calc = Asked("codec", [doc |-> Documents[i], h |-> h])
       \/ \E k \in 1..Len(CipherKeys), v \in 1..Len(CipherNonces), n \in 1..Len(DataLengths) :
             calc = Asked("chacha20", [key |-> CipherKeys[k], nonce |-> CipherNonces[v],
                                       data |-> CipherData(DataLengths[n])])
       \/ \E i \in 1..Len(TestVectors) :
             calc = Asked("sha256", [data |-> TestVectors[i][1], hex |-> TestVectors[i][2]])
       \/ \E i \in 1..Len(Passwords), r \in 0..MaxRand :
             calc = Asked("password", [password |-> Passwords[i], r |-> r])
       \/ \E i \in 1..Len(Stores), h \in 0..MaxHash, rid \in 0..MaxRand :
             calc = Asked("load", [db |-> Stores[i], file |-> Written(sync(Stores[i], 1, h)),
                                   rid |-> rid])
       \/ \E i \in 1..Len(Malformed), p \in 1..2 :
             calc = Asked("verify", [password |-> Passwords[p],
                                     stored |-> as_bytes(Malformed[i])])

Answered(output) ==
    /\ calc' = [calc EXCEPT !.done = TRUE, !.output = output]
    /\ UNCHANGED <<collections, schemas, file, clock, hasher, running, events, last, nops,
                   threads, locks, listener, pending>>

\* write_doc, then read_doc of the bytes.
Codec ==
    /\ calc.fn = "codec" /\ ~calc.done
    /\ \E bytes \in {write_doc(calc.input.doc, calc.input.h)} :
           Answered([bytes |-> bytes, read |-> read_doc(bytes, 0)])

\* chacha20, then chacha20 of the result under the same key and nonce.
Cipher ==
    /\ calc.fn = "chacha20" /\ ~calc.done
    /\ \E once \in {chacha20(calc.input.key, calc.input.nonce, calc.input.data)} :
           Answered([once |-> once,
                     twice |-> chacha20(calc.input.key, calc.input.nonce, once)])

Digest ==
    /\ calc.fn = "sha256" /\ ~calc.done
    /\ Answered(sha256(calc.input.data))

\* hash_password, then verify_password of the stored string.
Password ==
    /\ calc.fn = "password" /\ ~calc.done
    /\ \E stored \in {hash_password(calc.input.password, calc.input.r)} :
       \E v \in {verify_password(calc.input.password, stored)} :
           Answered([stored |-> stored, verified |-> ~v.panic /\ v.ret])

\* db::init on the file.
Load ==
    /\ calc.fn = "load" /\ ~calc.done
    /\ \E res \in {init(calc.input.file, calc.input.rid)} :
           Answered([ok |-> res.ok,
                     db |-> IF res.ok THEN res.val ELSE Database(EmptyMap, EmptyMap)])

\* verify_password on a stored string.
Verify ==
    /\ calc.fn = "verify" /\ ~calc.done
    /\ Answered(verify_password(calc.input.password, calc.input.stored))

NextPure == Codec \/ Cipher \/ Digest \/ Password \/ Load \/ Verify

SpecPure == InitPure /\ [][NextPure]_vars

\* ------------------------------------------------------- the store, C1..C5
Mutations == {"api_create_collection", "delete_collection", "insert", "update", "delete"}

\* The last operation changed the store and returned.
Mutated == running /\ last.op \in Mutations /\ last.result \in {"created", "true", "some"}

\* C1: whenever no operation is in progress, the collections map and the
\* schemas map have the same set of names.
C1_SameNames == keys(collections) = keys(schemas)

C1_Created ==
    /\ last.op = "api_create_collection" /\ last.result = "created"
    /\ S_notes \in keys(collections) /\ nops > 0

\* C2: create_collection with the name of an existing collection is
\* rejected: the collection keeps its documents and its schema.
C2_ExistingKept ==
    [][(last'.op = "api_create_collection" /\ nops' > nops
        /\ contains_key(collections, last'.collection))
       => /\ last'.result # "created"
          /\ collections'[last'.collection] = collections[last'.collection]
          /\ schemas'[last'.collection] = schemas[last'.collection]]_vars

\* C3: insert returns an id that was not a key of the collection, replaces
\* no document, and the collection grows by exactly one document.
C3_FreshId ==
    [][(last'.op = "insert" /\ nops' > nops /\ last'.result = "some")
       => /\ ~contains_key(collections[last'.collection], last'.id)
          /\ Cardinality(keys(collections'[last'.collection]))
                = Cardinality(keys(collections[last'.collection])) + 1]_vars

\* C4: update leaves `id` and `created` as they were even when the payload
\* carries them, stores its own time in `updated` and never the payload's,
\* and keeps every field the payload does not name.
C4_UpdateKeeps ==
    [][(last'.op = "update" /\ nops' > nops /\ last'.result = "true")
       => LET old == collections[last'.collection][last'.id]
              new == collections'[last'.collection][last'.id]
              payload == Payloads[last'.payload]
          IN  /\ \A k \in {S_id, S_created} :
                    /\ contains_key(new, k) <=> contains_key(old, k)
                    /\ contains_key(old, k) => new[k] = old[k]
              /\ new[S_updated] = Value_Int(now(clock))
              /\ \A k \in keys(old) \ (keys(payload) \cup {S_updated}) :
                    contains_key(new, k) /\ new[k] = old[k]]_vars

C4_Updated ==
    /\ last.op = "update" /\ last.result = "true" /\ last.payload = 2
    /\ contains_key(Payloads[2], S_id) /\ contains_key(Payloads[2], S_created)
    /\ collections[last.collection][last.id][S_id] = Value_String(last.id)

\* C5: with one thread and no I/O failure, once a mutating operation has
\* returned with success the data file decrypts and decodes to exactly the
\* collections and schemas in memory.
C5_WriteThrough ==
    Mutated => /\ file.exists
               /\ file_image(file) = Ok(Database(collections, schemas), Len(file.data) - 13)

C5_Written ==
    /\ Mutated /\ nops > 0 /\ last.op = "insert" /\ file.exists
    /\ contains_key(collections[last.collection], last.id)

\* ------------------------------------------------- the data file, C8..C10
SystemCollections == {S_users, S_sessions, S_settings, S_ports}

DefaultKeys == {settings_defaults[n][1] : n \in 1..Len(settings_defaults)}

\* The file holds what sync writes for the store in memory.
FileIsImage ==
    /\ running /\ file.exists
    /\ \E r \in 0..MaxRand : file.data = sync(Database(collections, schemas), r, hasher)

\* The documents new of `_settings` are those of old, but for defaults added.
SettingsRestored(old, new) ==
    IF keys(old) = {}
    THEN /\ Cardinality(keys(new)) = 1
         /\ \A id \in keys(new) : keys(new[id]) = DefaultKeys
    ELSE /\ keys(new) = keys(old)
         /\ \A id \in keys(old) :
               /\ \A k \in keys(old[id]) : contains_key(new[id], k) /\ new[id][k] = old[id][k]
               /\ keys(new[id]) \ keys(old[id]) \subseteq DefaultKeys

\* C8: sync followed by load into a new Database restores the collection
\* names, the schemas with the order of their fields, and every document;
\* only the defaults of `_settings` may be added.
C8_RoundTrip ==
    [][(last'.op = "init" /\ nops' > nops /\ FileIsImage)
       => /\ running'
          /\ schemas' = schemas
          /\ keys(collections') = keys(collections)
          /\ \A c \in keys(collections) \ {S_settings} : collections'[c] = collections[c]
          /\ SettingsRestored(collections[S_settings], collections'[S_settings])]_vars

C8_Restored ==
    /\ last.op = "init" /\ last.result = "ok" /\ nops > 0 /\ file.exists
    /\ contains_key(collections, S_notes) /\ keys(collections[S_notes]) # {}
    /\ schemas[S_notes] = <<field("title", "string")>>

\* C9: delete_collection of a name that starts with `_` returns false,
\* changes neither map, does not rewrite the file and emits no event.
C9_SystemNotDeleted ==
    [][(last'.op = "delete_collection" /\ nops' > nops /\ starts_with(last'.collection, "_"))
       => /\ last'.result = "false"
          /\ UNCHANGED <<collections, schemas, file>>
          /\ events' = <<>>]_vars

C9_Refused ==
    last.op = "delete_collection" /\ last.collection = S_users /\ last.result = "false"

\* Every collection whose name starts with `_` is as it was.
SystemUntouched ==
    \A name \in keys(collections) \cup keys(collections') \cup keys(schemas) \cup keys(schemas') :
        starts_with(name, "_")
        => /\ contains_key(collections, name) /\ contains_key(collections', name)
           /\ contains_key(schemas, name) /\ contains_key(schemas', name)
           /\ collections'[name] = collections[name]
           /\ schemas'[name] = schemas[name]

\* C10: once init has run the four system collections are in both maps in
\* every state, and neither the create_collection handler nor
\* delete_collection creates, empties or removes a `_` collection.
C10_SystemKept ==
    /\ [](running => /\ SystemCollections \subseteq keys(collections)
                     /\ SystemCollections \subseteq keys(schemas))
    /\ [][(last'.op \in {"api_create_collection", "delete_collection"} /\ nops' > nops)
          => SystemUntouched]_vars

C10_SystemAsked ==
    /\ last.op = "api_create_collection" /\ last.collection = S_users
    /\ last.result = "bad_request" /\ schemas[S_users] = users_fields

\* ------------------------------------------------ results and events, C13..
\* The kind of event each mutating operation emits.
EventKind(op) ==
    CASE op = "api_create_collection" -> "collection.created"
      [] op = "delete_collection" -> "collection.deleted"
      [] op = "insert" -> "doc.created"
      [] op = "update" -> "doc.updated"
      [] op = "delete" -> "doc.deleted"

\* C13: a call that changed the store emits exactly one event of its kind,
\* and a call that changed nothing emits none.
C13_OneEventPerChange ==
    [][(last'.op \in Mutations /\ nops' > nops)
       => IF collections' # collections \/ schemas' # schemas
          THEN Len(events') = 1 /\ events'[1].kind = EventKind(last'.op)
          ELSE events' = <<>>]_vars

\* C16: insert into a missing collection returns none, update and delete of
\* a missing collection or id return false, the readers return none or
\* empty; the maps and the file are unchanged and no event is emitted.
C16_NotFound ==
    [][(nops' > nops
        /\ last'.op \in {"insert", "update", "delete", "find_one", "find_by", "find_all"}
        /\ \/ ~contains_key(collections, last'.collection)
           \/ /\ last'.op \in {"update", "delete", "find_one"}
              /\ ~contains_key(collections[last'.collection], last'.id))
       => /\ CASE last'.op = "insert" -> last'.result = "none"
               [] last'.op \in {"update", "delete"} -> last'.result = "false"
               [] last'.op \in {"find_one", "find_by"} -> ~last'.result.some
               [] last'.op = "find_all" -> last'.result = <<>>
          /\ UNCHANGED <<collections, schemas, file>>
          /\ events' = <<>>]_vars

C16_Missing ==
    /\ last.op = "insert" /\ last.result = "none"
    /\ ~contains_key(collections, last.collection) /\ events = <<>>

\* C19: no document id and no nonce of the data file is made from the
\* all-zero buffer of an unavailable random source.
C19_NoZeroBytes ==
    /\ (last.op = "insert" /\ last.result = "some")
         => last.id # hex_encode([i \in 1..12 |-> 0])
    /\ (Mutated /\ file.exists) => SubSeq(file.data, 2, 13) # [i \in 1..12 |-> 0]

\* C20: the document insert stores has `id` equal to the returned id, and
\* `created` equal to `updated`, whatever the clock does.
C20_InsertStamps ==
    [][(last'.op = "insert" /\ nops' > nops /\ last'.result = "some")
       => LET doc == collections'[last'.collection][last'.id]
          IN  /\ doc[S_id] = Value_String(last'.id)
              /\ doc[S_created] = doc[S_updated]]_vars

\* ------------------------------------------------- request threads, claims
AllDone == \A t \in Threads : threads[t].pc = "done"

\* Memory and the returned values are those of the call of thread a
\* followed by the call of thread b.
InOrder(a, b) ==
    Let(Alone(Seeded.db, threads[a].call), LAMBDA first :
    Let(Alone(first.db, threads[b].call), LAMBDA second :
        /\ collections = second.db.collections
        /\ schemas = second.db.schemas
        /\ threads[a].ret = first.ret
        /\ threads[b].ret = second.ret))

\* C6: once every call has returned, the data file is the image of the
\* collections and schemas in memory.
C6_FileIsFinalImage ==
    AllDone => \E r \in 0..MaxRand :
                   file.data = sync(Database(collections, schemas), r, hasher)

\* C11: however two calls on one collection interleave, what they return
\* and what they leave in memory is what one of the two sequential orders
\* of the same calls returns and leaves.
C11_Linearizable == AllDone => (InOrder(1, 2) \/ InOrder(2, 1))

C11_Raced ==
    /\ AllDone
    /\ threads[1].call.op = "insert" /\ threads[1].ret = RetNone
    /\ threads[2].call.op = "delete_collection" /\ threads[2].ret = RetBool(TRUE)
    /\ ~contains_key(collections, S_notes)

IsPrefix(s, full) == Len(s) <= Len(full) /\ s = SubSeq(full, 1, Len(s))

HoldsWriteLock(t) == locks.cols = t \/ locks.schemas = t

\* C14: a thread that serializes, writes the file or broadcasts holds no
\* write lock, and memory changes only under the write lock of the map that
\* changes.
C14_NoLockDuringIO ==
    /\ \A t \in Threads :
          threads[t].pc \in {"serialize", "write", "emit", "return"} => ~HoldsWriteLock(t)
    /\ \A t \in Threads :
          threads[t].pc = "cols_changed" => (locks.cols = t /\ locks.schemas = t)

C14_WritingUnlocked ==
    \E t, u \in Threads :
        /\ threads[t].pc = "write" /\ threads[t].steps = <<"change">>
        /\ locks.cols = u /\ u # t

\* C15: whatever the listener does, every call returns.
C15_AlwaysReturns == <>AllDone

\* ------------------------------------------------ crashes and load, claims
\* The store in memory is the one db::init reads from the file f.
LoadedFrom(f) ==
    \E rid \in 0..MaxRand :
        Let(init(f, rid), LAMBDA res :
            res.ok /\ Database(collections, schemas) = res.val)

\* C7: after a crash while sync was writing the file, the next start has
\* the store of the file before the mutation or the store of the file
\* after it.
C7_CrashSafe ==
    (last.op = "init" /\ pending.torn)
        => /\ running
           /\ LoadedFrom(pending.before) \/ LoadedFrom(Written(pending.image))

\* C17: Database::load of a file whose content is malformed does not panic.
C17_LoadNeverPanics == last.op = "init" => last.result # "panic"

\* The step is db::init of a starting process.
Starts == ~running /\ last.op # "init" /\ last'.op = "init"

\* load ran as with no prior state: no panic, the store as Database::new
\* made it, the file as it was.
NoPriorState ==
    /\ last'.result = "ok"
    /\ Database(collections', schemas') = Database_new
    /\ file' = file

\* load decrypted and decoded the file: it panicked where deserialize
\* does, and otherwise every collection of the file is in the store with
\* its schema and (but for the defaults added to _settings) its documents.
Decoded ==
    /\ file' = file
    /\ \E image \in {file_image(file)} :
           /\ last'.result = "panic" <=> ~image.ok
           /\ image.ok =>
                 \A name \in keys(image.val.schemas) :
                     /\ contains_key(schemas', name) /\ contains_key(collections', name)
                     /\ schemas'[name] = image.val.schemas[name]
                     /\ name # S_settings
                          => collections'[name] = image.val.collections[name]

\* load of a file shorter than header bytes or of another version is no
\* prior state; any other file is decrypted and decoded.
LoadAsStated(header) ==
    Starts => IF ~file.exists \/ Len(file.data) < header \/ file.data[1] # DB_VERSION
              THEN NoPriorState
              ELSE Decoded

\* C18 (as stated): a file shorter than the 13-byte header or of another
\* version is no prior state; a file of 13 bytes or more with version 1 is
\* decrypted and decoded.
C18_HeaderSizeDecoded == [][LoadAsStated(13)]_vars

\* C18 (amended): a file shorter than 14 bytes (the header and one byte of
\* ciphertext) or of another version is no prior state; a file of 14 bytes
\* or more with version 1 is decrypted and decoded.
C18_ShortOrForeign == [][LoadAsStated(14)]_vars

C18_HeaderOnly ==
    /\ last.op = "init" /\ last.result = "ok" /\ running
    /\ file.exists /\ Len(file.data) = 13 /\ file.data[1] = DB_VERSION
    /\ Database(collections, schemas) = Database_new

\* ------------------------------------------------- the store, C21..C29
\* The step is a call of op that ran.
Called(op) == last'.op = op /\ nops' > nops

\* C21: a successful update that changes the value of a field other than
\* `updated` leaves `updated` different from what it was.
C21_UpdatedChanges ==
    [][(Called("update") /\ last'.result = "true")
       => LET old == collections[last'.collection][last'.id]
              new == collections'[last'.collection][last'.id]
          IN  (\E k \in keys(new) \ {S_updated} : ~contains_key(old, k) \/ new[k] # old[k])
                 => new[S_updated] # old[S_updated]]_vars

\* C22: delete_collection of an existing collection whose name does not
\* start with `_` returns true; afterwards find_all on the name is empty,
\* find_one finds none of its documents, list_all_collections does not
\* contain the name, and every other collection and schema is as it was.
C22_CollectionRemoved ==
    [][(/\ Called("delete_collection")
        /\ contains_key(collections, last'.collection)
        /\ ~starts_with(last'.collection, "_"))
       => LET name == last'.collection
              after == Database(collections', schemas')
          IN  /\ last'.result = "true"
              /\ find_all(after, name, hasher) = <<>>
              /\ \A id \in keys(collections[name]) : ~find_one(after, name, id).some
              /\ name \notin list_all_collections(after)
              /\ keys(collections') = keys(collections) \ {name}
              /\ keys(schemas') = keys(schemas) \ {name}
              /\ \A other \in keys(collections') : collections'[other] = collections[other]
              /\ \A other \in keys(schemas') : schemas'[other] = schemas[other]]_vars

C22_NotesRemoved ==
    /\ last.op = "delete_collection" /\ last.collection = S_notes /\ last.result = "true"
    /\ ~contains_key(collections, S_notes) /\ ~contains_key(schemas, S_notes)
    /\ contains_key(collections, S_users) /\ contains_key(schemas, S_settings)

\* C23: list_all_collections returns the names of the collections that
\* exist, list_collections those of them that do not start with `_`, and
\* neither changes the store or the file or emits an event.
C23_ListsExact ==
    [][/\ Called("list_all_collections")
          => /\ last'.result = keys(collections)
             /\ UNCHANGED <<collections, schemas, file>> /\ events' = <<>>
       /\ Called("list_collections")
          => /\ last'.result = {k \in keys(collections) : k[1] # code_unit("_")}
             /\ UNCHANGED <<collections, schemas, file>> /\ events' = <<>>]_nops

C23_Listed ==
    /\ last.op = "list_all_collections"
    /\ S_notes \in last.result /\ S_users \in last.result
    /\ contains_key(collections, S_notes)

\* C24: insert into an existing collection and update of an existing
\* document succeed and store the fields they are given whatever the schema
\* says, and insert, update and delete leave the schemas as they are.
C24_SchemaNotEnforced ==
    [][/\ (nops' > nops /\ last'.op \in {"insert", "update", "delete"}) => schemas' = schemas
       /\ (Called("insert") /\ contains_key(collections, last'.collection))
          => /\ last'.result = "some"
             /\ \A k \in keys(Payloads[last'.payload]) \ {S_id, S_created, S_updated} :
                    collections'[last'.collection][last'.id][k] = Payloads[last'.payload][k]
       /\ (/\ Called("update")
           /\ contains_key(collections, last'.collection)
           /\ contains_key(collections[last'.collection], last'.id))
          => /\ last'.result = "true"
             /\ \A k \in keys(Payloads[last'.payload]) \ {S_id, S_created, S_updated} :
                    collections'[last'.collection][last'.id][k] = Payloads[last'.payload][k]
      ]_vars

C24_Mismatched ==
    /\ last.op = "insert" /\ last.result = "some" /\ last.payload = 2
    /\ last.collection = S_notes
    /\ schemas[S_notes] = <<field("title", "string")>>
    /\ collections[S_notes][last.id][S_title] = Value_Int(3)
    /\ contains_key(collections[S_notes][last.id], as_bytes("tags"))

\* C29: delete_collection of a name that does not start with `_` and names
\* no collection returns false, changes nothing and emits no event.
C29_MissingCollection ==
    [][(/\ Called("delete_collection")
        /\ ~starts_with(last'.collection, "_")
        /\ ~contains_key(collections, last'.collection))
       => /\ last'.result = "false"
          /\ UNCHANGED <<collections, schemas, file>>
          /\ events' = <<>>]_vars

\* C30: the document of a doc.created or doc.updated event is the document
\* as the insert or update that emits it stored it.
C30_EventCarriesStored ==
    \A t \in Threads :
        threads[t].event.kind \in {"doc.created", "doc.updated"}
            => threads[t].event.doc =
                   Some(doc_to_json_for_collection(threads[t].call.collection,
                                                   threads[t].stored))

\* -------------------------------------------------- pure functions, claims
\* C25: read_doc of the bytes write_doc wrote for a document built from
\* Null, Bool, Int, String, Array and Object values is the document, and it
\* consumes exactly those bytes.
C25_CodecRoundTrip ==
    (calc.fn = "codec" /\ calc.done)
        => calc.output.read = Ok(calc.input.doc, Len(calc.output.bytes))

C25_NestedRead ==
    /\ calc.fn = "codec" /\ calc.done
    /\ contains_key(calc.input.doc, as_bytes("x")) /\ calc.input.doc[as_bytes("x")] = Nested
    /\ calc.output.read.ok /\ Len(calc.output.bytes) > 40

\* Chunk i of the output is chunk i of the input xored with the keystream
\* block of counter i.
ChunkOf(input, output, i) ==
    Let(chacha20_block(input.key, i, input.nonce), LAMBDA block :
        \A p \in (64 * i + 1)..(64 * i + 64) :
            p <= Len(input.data) => output[p] = xor8(input.data[p], block[p - 64 * i]))

\* C26: chacha20 keeps the length, applied twice under one key and nonce it
\* gives the data back, and chunk i is xored with the block of counter i,
\* counted from 0.
C26_SelfInverse ==
    (calc.fn = "chacha20" /\ calc.done)
        => /\ Len(calc.output.once) = Len(calc.input.data)
           /\ calc.output.twice = calc.input.data
           /\ \A i \in 0..((Len(calc.input.data) - 1) \div 64) :
                  ChunkOf(calc.input, calc.output.once, i)

C26_PartialBlock ==
    /\ calc.fn = "chacha20" /\ calc.done
    /\ Len(calc.input.data) = 65 /\ calc.input.key = CipherKeys[3]
    /\ calc.output.once # calc.input.data /\ calc.output.twice = calc.input.data

\* C27: sha256 of each message is its FIPS 180-4 digest, 32 bytes, and
\* sha256 of "abc" is ba7816bf...f20015ad.
C27_Sha256Vectors ==
    (calc.fn = "sha256" /\ calc.done)
        => /\ Len(calc.output) = 32
           /\ hex_encode(calc.output) = as_bytes(calc.input.hex)
           /\ \E n \in {Len(calc.input.data)}, padded \in {pad(calc.input.data)} :
                  /\ Len(padded) % 64 = 0 /\ Len(padded) - n \in 9..72
                  /\ SubSeq(padded, 1, n) = calc.input.data /\ padded[n + 1] = 128
                  /\ \A p \in (n + 2)..(Len(padded) - 8) : padded[p] = 0
                  /\ SubSeq(padded, Len(padded) - 7, Len(padded))
                         = <<0, 0, 0, 0, 0, 0, (8 * n) \div 256, (8 * n) % 256>>

C27_Abc ==
    /\ calc.fn = "sha256" /\ calc.done /\ calc.input.data = <<97, 98, 99>>
    /\ SubSeq(calc.output, 1, 4) = <<186, 120, 22, 191>>

\* C28: verify_password accepts what hash_password stored for the same
\* password; the stored string is hex(salt) ':' hex(digest), which split
\* and hex_decode take back to the 16-byte salt and a 32-byte digest.
C28_PasswordVerifies ==
    (calc.fn = "password" /\ calc.done)
        => /\ calc.output.verified
           /\ Len(calc.output.stored) = 97 /\ calc.output.stored[33] = code_unit(":")
           /\ split(calc.output.stored, code_unit(":"))
                  = <<SubSeq(calc.output.stored, 1, 32), SubSeq(calc.output.stored, 34, 97)>>
           /\ hex_decode(SubSeq(calc.output.stored, 1, 32))
                  = [panic |-> FALSE, some |-> TRUE, v |-> random_bytes(16, calc.input.r)]
           /\ hex_decode(SubSeq(calc.output.stored, 34, 97)).some
           /\ Len(hex_decode(SubSeq(calc.output.stored, 34, 97)).v) = 32

C28_Verified ==
    /\ calc.fn = "password" /\ calc.done /\ calc.output.verified
    /\ calc.input.password = as_bytes("a:b") /\ calc.input.r = 1

\* ------------------------------------------------- reserved fields, C31
\* C31: in every state of the running process, every document of every
\* collection has an `id` equal to the key it is stored under, a `created`
\* and an `updated`, also after load and the migration of `_settings`.
C31_ReservedFields ==
    running =>
        \A c \in keys(collections) : \A k \in keys(collections[c]) :
            /\ contains_key(collections[c][k], S_id)
            /\ collections[c][k][S_id] = Value_String(k)
            /\ contains_key(collections[c][k], S_created)
            /\ contains_key(collections[c][k], S_updated)

\* ------------------------------------------------------- lock order, C32
\* The lock thread t asks for next and does not hold.
WaitsFor(t) ==
    CASE threads[t].pc \in {"cols_locked", "migrate_cols", "deserialize"} -> "schemas"
      [] threads[t].pc \in {"schemas_locked", "migrate", "settings"} -> "cols"
      [] threads[t].pc = "start" /\ threads[t].call.op \in DocOps \cup CollectionOps -> "cols"
      [] OTHER -> "none"

Blocked(t, u) == WaitsFor(t) # "none" /\ locks[WaitsFor(t)] = u

\* C32: no two threads running store operations, load and its migration
\* among them, wait for each other's lock.
C32_NoDeadlock == \A t, u \in Threads : ~(t # u /\ Blocked(t, u) /\ Blocked(u, t))

\* ------------------------------------------------ written images, C33
\* The names of the schema table of the image equal those of its collection
\* table.
SameTables(image) ==
    Let(file_image(Written(image)), LAMBDA d :
        d.ok /\ keys(d.val.schemas) = keys(d.val.collections))

C34_DefaultsFilled ==
    (calc.fn = "load" /\ calc.done)
        => /\ calc.output.ok
           /\ contains_key(calc.output.db.collections, S_ports)
           /\ contains_key(calc.output.db.schemas, S_ports)
           /\ \E old \in {calc.input.db.collections[S_settings]},
                 new \in {calc.output.db.collections[S_settings]} :
                  /\ keys(old) # {} => keys(new) = keys(old)
                  /\ keys(new) # {}
                  /\ \A id \in keys(new) :
                         /\ \A n \in 1..Len(settings_defaults) :
                                /\ contains_key(new[id], settings_defaults[n][1])
                                /\ new[id][settings_defaults[n][1]]
                                       = IF contains_key(old, id)
                                            /\ contains_key(old[id], settings_defaults[n][1])
                                         THEN old[id][settings_defaults[n][1]]
                                         ELSE settings_defaults[n][2]
                         /\ contains_key(old, id)
                                => \A k \in keys(old[id]) : new[id][k] = old[id][k]

C34_CustomKept ==
    /\ calc.fn = "load" /\ calc.done /\ calc.output.ok
    /\ ~contains_key(calc.input.db.schemas, S_ports)
    /\ \E id \in keys(calc.output.db.collections[S_settings]) :
           /\ calc.output.db.collections[S_settings][id][as_bytes("page_title")]
                  = Value_String(as_bytes("Mine"))
           /\ calc.output.db.collections[S_settings][id][as_bytes("og_title")]
                  = Value_String(as_bytes("Rust Pure Web"))
           /\ ~contains_key(calc.input.db.collections[S_settings][id], as_bytes("og_title"))

\* ------------------------------------------------ malformed hashes, C35
\* C35: verify_password of a stored string that is not a well-formed hash
\* does not panic and returns false.
C35_MalformedIsFalse ==
    (calc.fn = "verify" /\ calc.done) => ~calc.output.panic /\ ~calc.output.ret

\* ------------------------------------------------------ auth, C36..C38
\* C36: an event for `_users` carries the stored document without its
\* `password` field, on insert and on update.
C36_NoPasswordInEvents ==
    \A i \in 1..Len(events) :
        (events[i].collection = S_users /\ events[i].kind \in {"doc.created", "doc.updated"})
            => /\ events[i].doc.some /\ events[i].id.some
               /\ ~contains_key(events[i].doc.v, S_password)
               /\ contains_key(collections[S_users], events[i].id.v)
               /\ events[i].doc.v = map_remove(collections[S_users][events[i].id.v], S_password)

C36_UserUpdated ==
    \E i \in 1..Len(events) :
        /\ events[i].collection = S_users /\ events[i].kind = "doc.updated"
        /\ contains_key(collections[S_users][events[i].id.v], S_password)
        /\ last.op = "update_user" /\ last.result = "ok"

\* The sessions of the store that carry the token.
SessionsOf(cols, token) ==
    {k \in keys(cols[S_sessions]) : cols[S_sessions][k][S_token] = Value_String(token)}

Expired(session, t) == session[S_expires][2] < now(t)

\* C37: validate_token returns a user id only if a session with the token
\* exists whose `expires` is not earlier than now, and the id is that
\* session's user; when the sessions with the token have all expired it
\* returns none and deletes one; for an unknown token it changes nothing.
C37_OnlyUnexpired ==
    [][Called("validate_token")
          => /\ last'.result = "some"
                => /\ \E k \in SessionsOf(collections, last'.token) :
                          /\ ~Expired(collections[S_sessions][k], clock)
                          /\ collections[S_sessions][k][S_user_id] = Value_String(last'.id)
                   /\ UNCHANGED <<collections, schemas, file>>
             /\ (/\ SessionsOf(collections, last'.token) # {}
                 /\ \A k \in SessionsOf(collections, last'.token) :
                        Expired(collections[S_sessions][k], clock))
                => /\ last'.result = "none"
                   /\ \E k \in SessionsOf(collections, last'.token) :
                          collections' = map_insert(collections, S_sessions,
                                                    map_remove(collections[S_sessions], k))
             /\ SessionsOf(collections, last'.token) = {}
                => last'.result = "none" /\ UNCHANGED <<collections, schemas, file>>]_nops

C37_ExpiredDeleted ==
    /\ last.op = "validate_token" /\ last.result = "none"
    /\ clock = SESSION_DURATION + 1
    /\ Len(events) = 1 /\ events[1].kind = "doc.deleted" /\ events[1].collection = S_sessions
    /\ SessionsOf(collections, last.token) = {}

\* C38: after logout(token) has returned true no session carries the token,
\* so validate_token, get_user and is_admin of it give none and false, and
\* the sessions of other tokens are as they were; logout that returns false
\* changes nothing.
C38_LogoutInvalidates ==
    [][Called("logout")
          => /\ last'.result = "true"
                => /\ SessionsOf(collections', last'.token) = {}
                   /\ ~validate_token(Database(collections', schemas'), last'.token,
                                      hasher', clock').ret.some
                   /\ ~get_user(Database(collections', schemas'), last'.token,
                                hasher', clock').ret.some
                   /\ ~is_admin(Database(collections', schemas'), last'.token,
                                hasher', clock').ret
                   /\ \A k \in keys(collections[S_sessions]) :
                          k \notin SessionsOf(collections, last'.token)
                              => /\ contains_key(collections'[S_sessions], k)
                                 /\ collections'[S_sessions][k] = collections[S_sessions][k]
                   /\ collections'[S_users] = collections[S_users]
             /\ last'.result = "false"
                => /\ SessionsOf(collections, last'.token) = {}
                   /\ UNCHANGED <<collections, schemas, file>> /\ events' = <<>>]_nops

\* ------------------------------------------------ users, C39 and C40
\* C39: no two documents of `_users` have the same `email`, whatever the
\* interleaving of the register and create_user calls.
C39_EmailsUnique ==
    \A j, k \in keys(collections[S_users]) :
        collections[S_users][j][S_email] = collections[S_users][k][S_email] => j = k

\* The users whose role is `admin`.
Admins == {k \in keys(collections[S_users]) :
               collections[S_users][k][S_role] = Value_String(as_bytes("admin"))}

\* C40: among the users that register calls made, starting from an empty
\* `_users`, exactly one has the role `admin`.
C40_OneAdmin ==
    (/\ \A t \in Threads : threads[t].call.op = "register"
     /\ keys(collections[S_users]) # {})
        => Cardinality(Admins) = 1

====
